---- MODULE Spec2Model ----
(***************************************************************************)
(* The conditional field-routing core of the GI paper tool: the schema     *)
(* registry (analyze_google_sheets.form_structure), the section mapper     *)
(* (DataProcessor.extract_paper_sections_data), the uploaded-file router   *)
(* (GoogleFormProcessor) and the schema-driven router                      *)
(* (ConditionalFormProcessor).  Field labels, keys and category names are  *)
(* the literal strings of the source.                                      *)
(***************************************************************************)
EXTENDS Integers, Sequences, FiniteSets, TLC

VARIABLES
  response,        \* the RawResponse being processed: label -> Python value
  data,            \* GoogleFormProcessor.data: PyNone or the loaded rows
  processed_data,  \* GoogleFormProcessor.processed_data
  call             \* the most recent call: its operation, and what it returned or raised

vars == <<response, data, processed_data, call>>

\* ---- Python values and dicts ----

\* a Python str
PyStr(s) == [t |-> "str", s |-> s]

\* Python None (a short sheet row padded by pandas, a JSON null)
PyNone == [t |-> "NoneType"]

\* float('nan') (an empty cell read by pandas.read_csv / read_excel)
PyNaN == [t |-> "float"]

IsStr(v) == v.t = "str"

\* the empty dict {}
EmptyDict == <<>>

\* dict.get(k, default) and Series.get(k, default)
Get(d, k, default) == IF k \in DOMAIN d THEN d[k] ELSE default

\* d.update(e): e's keys are added to d, e's value winning on a shared key
Update(d, e) ==
  [k \in (DOMAIN d) \cup (DOMAIN e) |-> IF k \in DOMAIN e THEN e[k] ELSE d[k]]

\* str(v)
str(v) ==
  IF IsStr(v) THEN v.s ELSE IF v = PyNone THEN "None" ELSE "nan"

\* pandas.notna(v)
notna(v) == IsStr(v)

\* the set of elements of a sequence
Range(seq) == {seq[i] : i \in 1..Len(seq)}

\* ---- Python str operations ----

\* the characters str.strip() removes
Whitespace == {" ", "\t", "\n", "\r", "\f"}

CharAt(s, i) == SubSeq(s, i, i)

\* s.strip()
strip(s) ==
  LET keep == {i \in 1..Len(s) : CharAt(s, i) \notin Whitespace}
      Min(S) == CHOOSE x \in S : \A y \in S : x <= y
      Max(S) == CHOOSE x \in S : \A y \in S : x >= y
  IN  IF keep = {} THEN "" ELSE SubSeq(s, Min(keep), Max(keep))

\* sub in s
Contains(sub, s) ==
  \E i \in 1..(Len(s) - Len(sub) + 1) : SubSeq(s, i, i + Len(sub) - 1) = sub

\* ---- Schema registry: form_structure of analyze_google_sheets ----

\* the universal pool, in form order
universal_sections ==
  <<
    "Timestamp",
    "Email Address",
    "Applicant/Orginization Name",
    "Applicant Type (Can be more than one option)",
    "Gmail ID",
    "Phone Number (With country code)",
    "Complete Address",
    "Product Name ( Exact name you want to register for GI protection)",
    "Common/Local Names (All alternative names by which this product is known locally)",
    "Region of Origin",
    "State/Province (Primary state or province of production)",
    "Production Districts (List all districts involved in traditional production)",
    "Specific Geographic Boundaries [Exact boundaries of the geographical area (villages, taluks, coordinates if available)]",
    "Why is this product special to this region? (Explain the connection between geography and product uniqueness)",
    "Select Product Category" >>

\* the conditional pool of Agricultural Products
agricultural_pool ==
  <<
    "Crop/Plant Type (Scientific name and variety of the plant/crop)",
    "Physical Characteristics( Describe size, color, shape, texture of the agricultural product )",
    "Taste & Aroma Profile (Detailed description of taste, flavor, and aromatic properties)",
    "Nutritional Properties (Nutritional content, vitamins, minerals, and health benefits)",
    "Harvest Season [When is the product typically harvested? (months/seasons)]",
    "Soil Requirements (Specific soil type, pH, and conditions needed for cultivation)",
    "Climate Requirements ( Temperature, rainfall, humidity requirements for optimal growth )",
    "Traditional Growing Methods (Traditional cultivation practices passed down through generations)",
    "Seeds/Planting Material (Source and characteristics of traditional seeds or planting material used)",
    "Natural Pest Control (Traditional methods of pest and disease management)",
    "Post-Harvest Processing [Steps taken immediately after harvest (drying, cleaning, sorting)]",
    "Traditional Storage Methods ( How the product is traditionally stored and preserved)",
    "Quality Grading (Traditional methods of quality assessment and grading)",
    "Average Yield per Acre (Typical production quantity per unit area)",
    "Total Annual Production (Total quantity produced annually in the region)",
    "Number of Farmers Involved (Approximate number of farmers/producers in the region)",
    "Price Premium ( How much more does this product sell for compared to similar products from other regions?)",
    "Export Markets (Countries/regions where this product is exported)",
    "Farmer Income Impact (How has this product improved farmer incomes and livelihoods?)" >>

\* the conditional pool of Food & Beverages
food_pool ==
  <<
    "Food Category",
    "Main Ingredients (List all primary ingredients and their sources)",
    "Taste Profile (Detailed description of taste, texture, and sensory characteristics)",
    "Nutritional Benefits (Health benefits, nutritional content, medicinal properties if any)",
    "Shelf Life ( How long does the product stay fresh under normal conditions?)",
    "Traditional Recipe ( Detailed traditional recipe or preparation method )",
    "Secret/Special Techniques (Any unique techniques or secrets that make this product special)",
    "Traditional Equipment ( Special equipment, utensils, or tools used in preparation)",
    "Aging/Fermentation Process (If applicable, describe aging, fermentation, or curing processes)",
    "Quality Control in Preparation ( How is quality maintained during preparation?)",
    "Local Raw Materials (Which ingredients must come from the specific geographical region?)",
    "Seasonal Availability (How does seasonality affect availability of ingredients and production?)",
    "Traditional Suppliers (Who are the traditional suppliers of raw materials?)",
    "Festival/Ceremonial Use (Is this food associated with specific festivals, ceremonies, or cultural events?)",
    "Traditional Consumption Patterns  (How and when is this food traditionally consumed?)",
    "Cultural Stories/Legends (Any cultural stories, legends, or folklore associated with this food)",
    "Daily/Monthly Production  (Typical production quantities per day or month)",
    "Number of Traditional Producers (How many families/businesses are involved in traditional production?)",
    "Market Reach (Local, regional, national, or international market presence)" >>

\* the conditional pool of Handicrafts & Artisanal Products
handicrafts_pool ==
  <<
    "Type of Handicraft",
    "Product Dimensions (Typical size and dimensions of the finished product)",
    "Materials Used  (All raw materials used and their local sources)",
    "Distinctive Design Features (What makes the design unique to this region?)",
    "Functional Use ( How is this product used in daily life or special occasions?)",
    "Manufacturing Process (Step-by-step description of the traditional making process)",
    "Special Tools & Equipment (Traditional tools and equipment used by artisans)",
    "Skill Requirements (What specific skills and training do artisans need?)",
    "Time to Create (How long does it take to create one piece?)",
    "Design Patterns/Motifs (Traditional patterns, motifs, or designs that are characteristic of the region)",
    "Number of Active Artisans (How many artisans are currently practicing this craft?)",
    "Community Background ( Which communities/families have traditionally practiced this craft?)",
    "Skill Transfer Method (How are skills passed down to new generations?)",
    "Training Period (How long does it take to train a new artisan?)",
    "Historical Significance (Historical importance and cultural significance of this craft)",
    "Traditional Uses in Society  (How was/is this product used in traditional society?)",
    "Symbolic Meaning (Any symbolic or spiritual significance of the craft)",
    "Production Capacity (How many pieces can an artisan produce per month?)",
    "Price Range  (Typical price range for different sizes/types)",
    "Market Challenges ( What challenges do artisans face in marketing their products?)" >>

\* the conditional pool of Textiles & Fabrics
textiles_pool ==
  <<
    "Type of Textile*",
    "Fiber Type (Thread count, weight, dimensions, thickness specifications)",
    "Color Palette (Traditional colors used and sources of natural dyes)",
    "Pattern/Design Characteristics (Distinctive patterns, motifs, or design elements)",
    "Traditional Loom Type ( Type of loom used and its characteristics)",
    "Weaving Technique ( Specific weaving techniques and methods used)",
    "Thread Preparation (How are threads prepared, spun, and treated before weaving?)",
    "Dyeing Process (Traditional dyeing methods and natural dye sources)",
    "Time to Complete ( How long does it take to complete one piece?)",
    "Weaver Community ( Which communities have traditionally practiced this weaving?)",
    "Number of Active Weavers (Current number of practicing weavers)",
    "Skill Complexity (Level of skill required and training needed)",
    "Design Creation Process (How are traditional designs created and modified?)",
    "Traditional Uses (How is this textile traditionally used in society?)",
    "Ceremonial Significance (Use in weddings, festivals, or religious ceremonies)",
    "Social Status Indicators ( Does this textile indicate social status or community membership?)",
    "Production per Weaver (Average monthly production per weaver)",
    "Raw Material Costs ( Cost and availability of raw materials)",
    "Market Demand ( Current market demand and customer base)" >>

\* the conditional pool of Natural Products & Extracts
natural_pool ==
  <<
    "Product Type",
    "Source Plant/Material (Scientific name and description of source plant or natural material)",
    "Active Compounds (Key chemical compounds or active ingredients)",
    "Physical Properties (Color, consistency, aroma, and physical characteristics)",
    "Traditional Uses (How has this product been traditionally used?)",
    "Collection Season [ When is the raw material collected? (months/seasons)]",
    "Collection Methods  (Traditional methods of collection or harvesting)",
    "Processing Technique (How is the final product extracted or processed?)",
    "Traditional Equipment (Tools and equipment used in traditional processing)",
    "Quality Assessment (How is quality determined and maintained?)",
    "Habitat Requirements (Specific environmental conditions needed for the source material)",
    "Sustainable Practices (Traditional conservation and sustainability practices)",
    "Seasonal Variations ( How do seasonal changes affect product quality?)",
    "Geographic Specificity (Why can this product only be obtained from this specific region?)",
    "Indigenous Knowledge (Traditional knowledge systems associated with this product)",
    "Community Guardians ( Which communities have traditionally been guardians of this knowledge?)",
    "Traditional Applications (Detailed traditional uses in medicine, cosmetics, or daily life)",
    "Yield per Collection ( Typical quantity obtained per collection/processing cycle)",
    "Market Applications ( Modern commercial applications and uses)",
    "Value Addition Potential (Opportunities for processing into higher-value products)" >>

\* the universal closing pool
universal_closing_sections ==
  <<
    "Production History (How long has this product been made in this region?)",
    "Historical Documents (Any historical references, documents, or evidence)",
    "Cultural Evolution  (How has production evolved while maintaining traditional character?)",
    "Producer Income (Average annual income per producer from this product )",
    "Employment Generation (Number of people employed directly and indirectly)",
    "Regional Economic Impact (Overall economic contribution to the region)",
    "Current Challenges (Main challenges facing production and marketing)",
    "Growth Potential (Potential for expanding production and markets)",
    "Support Needed ( What support is needed for development?)",
    "Product Photos ( High-quality photos of the product)",
    "Production Process Photos (Photos showing production/making process)",
    "Supporting Documents (Any certificates, awards, research papers, or other evidence)",
    "Applicant Declaration",
    "Unique Application ID [Enter a unique identifier for your application (used for file naming)]" >>

\* ---- DataProcessor.extract_paper_sections_data: key -> label read ----

\* base keys of section abstract and the label each is read from
abstract_base ==
  [
    gi_name |-> " Product Name ( Exact name you want to register for GI protection)",
    category |-> "Select Product Category \n\nChoose the category that best describes your product",
    region |-> " Region of Origin",
    description |-> " Physical Characteristics( Describe size, color, shape, texture of the agricultural product )",
    significance |-> "Why is this product special to this region? (Explain the connection between geography and product uniqueness)" ]

\* base keys of section introduction and the label each is read from
introduction_base ==
  [
    gi_name |-> " Product Name ( Exact name you want to register for GI protection)",
    category |-> "Select Product Category \n\nChoose the category that best describes your product",
    region |-> " Region of Origin",
    state_province |-> " State/Province (Primary state or province of production)",
    districts |-> " Production Districts (List all districts involved in traditional production)",
    geographic_boundaries |-> "Specific Geographic Boundaries [Exact boundaries of the geographical area (villages, taluks, coordinates if available)]",
    historical_background |-> " Production History (How long has this product been made in this region?)",
    historical_documents |-> " Historical Documents (Any historical references, documents, or evidence)",
    significance |-> "Why is this product special to this region? (Explain the connection between geography and product uniqueness)" ]

\* base keys of section literature_review and the label each is read from
literature_review_base ==
  [
    gi_name |-> " Product Name ( Exact name you want to register for GI protection)",
    category |-> "Select Product Category \n\nChoose the category that best describes your product",
    traditional_uses |-> "Traditional Uses in Society  (How was/is this product used in traditional society?)",
    cultural_significance |-> " Historical Significance (Historical importance and cultural significance of this craft)",
    symbolic_meaning |-> "Symbolic Meaning (Any symbolic or spiritual significance of the craft)",
    cultural_stories |-> "Cultural Stories/Legends (Any cultural stories, legends, or folklore associated with this food)",
    festival_use |-> "Festival/Ceremonial Use (Is this food associated with specific festivals, ceremonies, or cultural events?)" ]

\* base keys of section methodology and the label each is read from
methodology_base ==
  [
    gi_name |-> " Product Name ( Exact name you want to register for GI protection)",
    category |-> "Select Product Category \n\nChoose the category that best describes your product",
    production_process |-> " Manufacturing Process (Step-by-step description of the traditional making process)",
    traditional_equipment |-> "Traditional Equipment ( Special equipment, utensils, or tools used in preparation)",
    traditional_techniques |-> "Secret/Special Techniques (Any unique techniques or secrets that make this product special)",
    quality_control |-> "Quality Control in Preparation ( How is quality maintained during preparation?)",
    raw_materials |-> " Local Raw Materials (Which ingredients must come from the specific geographical region?)",
    traditional_suppliers |-> "Traditional Suppliers (Who are the traditional suppliers of raw materials?)" ]

\* base keys of section results and the label each is read from
results_base ==
  [
    gi_name |-> " Product Name ( Exact name you want to register for GI protection)",
    category |-> "Select Product Category \n\nChoose the category that best describes your product",
    production_capacity |-> " Production Capacity (How many pieces can an artisan produce per month?)",
    annual_production |-> "Total Annual Production (Total quantity produced annually in the region)",
    number_of_producers |-> "Number of Traditional Producers (How many families/businesses are involved in traditional production?)",
    price_range |-> "Price Range  (Typical price range for different sizes/types)",
    price_premium |-> " Price Premium ( How much more does this product sell for compared to similar products from other regions?)",
    export_markets |-> "Export Markets (Countries/regions where this product is exported)",
    market_reach |-> "Market Reach (Local, regional, national, or international market presence)",
    producer_income |-> "Producer Income (Average annual income per producer from this product )",
    employment_generation |-> " Employment Generation (Number of people employed directly and indirectly)",
    regional_impact |-> "Regional Economic Impact (Overall economic contribution to the region)" ]

\* base keys of section conclusion and the label each is read from
conclusion_base ==
  [
    gi_name |-> " Product Name ( Exact name you want to register for GI protection)",
    category |-> "Select Product Category \n\nChoose the category that best describes your product",
    current_challenges |-> " Current Challenges (Main challenges facing production and marketing)",
    market_challenges |-> "Market Challenges ( What challenges do artisans face in marketing their products?)",
    growth_potential |-> "Growth Potential (Potential for expanding production and markets)",
    support_needed |-> "Support Needed ( What support is needed for development?)",
    cultural_evolution |-> "Cultural Evolution  (How has production evolved while maintaining traditional character?)",
    future_prospects |-> "Growth Potential (Potential for expanding production and markets)" ]

\* keys the 'Agricultural' branch adds to methodology
agricultural_methodology ==
  [
    crop_type |-> "Crop/Plant Type (Scientific name and variety of the plant/crop)",
    soil_requirements |-> "Soil Requirements (Specific soil type, pH, and conditions needed for cultivation)",
    climate_requirements |-> "Climate Requirements ( Temperature, rainfall, humidity requirements for optimal growth )",
    growing_methods |-> "Traditional Growing Methods (Traditional cultivation practices passed down through generations)",
    seeds_material |-> " Seeds/Planting Material (Source and characteristics of traditional seeds or planting material used)",
    pest_control |-> " Natural Pest Control (Traditional methods of pest and disease management)",
    harvest_season |-> "Harvest Season [When is the product typically harvested? (months/seasons)]",
    post_harvest |-> " Post-Harvest Processing [Steps taken immediately after harvest (drying, cleaning, sorting)]",
    storage_methods |-> " Traditional Storage Methods ( How the product is traditionally stored and preserved)",
    yield_per_acre |-> " Average Yield per Acre (Typical production quantity per unit area)",
    number_of_farmers |-> "Number of Farmers Involved (Approximate number of farmers/producers in the region)",
    farmer_income_impact |-> "Farmer Income Impact (How has this product improved farmer incomes and livelihoods?)" ]

\* keys the 'Agricultural' branch adds to results
agricultural_results ==
  [
    taste_aroma |-> "Taste & Aroma Profile (Detailed description of taste, flavor, and aromatic properties)",
    nutritional_properties |-> " Nutritional Properties (Nutritional content, vitamins, minerals, and health benefits)",
    quality_grading |-> "Quality Grading (Traditional methods of quality assessment and grading)" ]

\* keys the 'Food' branch adds to methodology
food_methodology ==
  [
    main_ingredients |-> "Main Ingredients (List all primary ingredients and their sources)",
    traditional_recipe |-> "Traditional Recipe ( Detailed traditional recipe or preparation method )",
    aging_fermentation |-> "Aging/Fermentation Process (If applicable, describe aging, fermentation, or curing processes)",
    seasonal_availability |-> "Seasonal Availability (How does seasonality affect availability of ingredients and production?)" ]

\* keys the 'Food' branch adds to results
food_results ==
  [
    taste_profile |-> "Taste Profile (Detailed description of taste, texture, and sensory characteristics)",
    nutritional_benefits |-> "Nutritional Benefits (Health benefits, nutritional content, medicinal properties if any)",
    shelf_life |-> " Shelf Life ( How long does the product stay fresh under normal conditions?)",
    consumption_patterns |-> " Traditional Consumption Patterns  (How and when is this food traditionally consumed?)",
    daily_production |-> " Daily/Monthly Production  (Typical production quantities per day or month)" ]

\* keys the 'Handicraft' branch adds to methodology
handicraft_methodology ==
  [
    materials_used |-> " Materials Used  (All raw materials used and their local sources)",
    special_tools |-> "Special Tools & Equipment (Traditional tools and equipment used by artisans)",
    skill_requirements |-> "Skill Requirements (What specific skills and training do artisans need?)",
    time_to_create |-> "Time to Create (How long does it take to create one piece?)",
    skill_transfer |-> " Skill Transfer Method (How are skills passed down to new generations?)",
    training_period |-> "Training Period (How long does it take to train a new artisan?)" ]

\* keys the 'Handicraft' branch adds to results
handicraft_results ==
  [
    product_dimensions |-> " Product Dimensions (Typical size and dimensions of the finished product)",
    design_features |-> "Distinctive Design Features (What makes the design unique to this region?)",
    functional_use |-> "Functional Use ( How is this product used in daily life or special occasions?)",
    design_patterns |-> "Design Patterns/Motifs (Traditional patterns, motifs, or designs that are characteristic of the region)",
    number_of_artisans |-> "Number of Active Artisans (How many artisans are currently practicing this craft?)",
    community_background |-> " Community Background ( Which communities/families have traditionally practiced this craft?)" ]

\* keys the 'Textile' branch adds to methodology
textile_methodology ==
  [
    fiber_type |-> "Fiber Type (Thread count, weight, dimensions, thickness specifications)",
    traditional_loom |-> " Traditional Loom Type ( Type of loom used and its characteristics)",
    weaving_technique |-> "Weaving Technique ( Specific weaving techniques and methods used)",
    thread_preparation |-> "Thread Preparation (How are threads prepared, spun, and treated before weaving?)",
    dyeing_process |-> " Dyeing Process (Traditional dyeing methods and natural dye sources) ",
    time_to_complete |-> "Time to Complete ( How long does it take to complete one piece?)" ]

\* keys the 'Textile' branch adds to results
textile_results ==
  [
    color_palette |-> " Color Palette (Traditional colors used and sources of natural dyes)",
    pattern_characteristics |-> "Pattern/Design Characteristics (Distinctive patterns, motifs, or design elements)",
    weaver_community |-> "Weaver Community ( Which communities have traditionally practiced this weaving?)",
    number_of_weavers |-> " Number of Active Weavers (Current number of practicing weavers)",
    skill_complexity |-> "Skill Complexity (Level of skill required and training needed)",
    design_creation |-> " Design Creation Process (How are traditional designs created and modified?)",
    traditional_uses |-> "Traditional Uses (How is this textile traditionally used in society?)",
    ceremonial_significance |-> "Ceremonial Significance (Use in weddings, festivals, or religious ceremonies)",
    social_status |-> "Social Status Indicators ( Does this textile indicate social status or community membership?)",
    production_per_weaver |-> " Production per Weaver (Average monthly production per weaver)",
    raw_material_costs |-> " Raw Material Costs ( Cost and availability of raw materials)",
    market_demand |-> " Market Demand ( Current market demand and customer base) " ]

\* keys the 'Natural' branch adds to methodology
natural_methodology ==
  [
    source_plant |-> "Source Plant/Material (Scientific name and description of source plant or natural material)",
    collection_season |-> "Collection Season [ When is the raw material collected? (months/seasons)]",
    collection_methods |-> " Collection Methods  (Traditional methods of collection or harvesting)",
    processing_technique |-> "Processing Technique (How is the final product extracted or processed?)",
    traditional_equipment_natural |-> "Traditional Equipment (Tools and equipment used in traditional processing)",
    quality_assessment |-> " Quality Assessment (How is quality determined and maintained?)",
    habitat_requirements |-> " Habitat Requirements (Specific environmental conditions needed for the source material)",
    sustainable_practices |-> "Sustainable Practices (Traditional conservation and sustainability practices)",
    seasonal_variations |-> "Seasonal Variations ( How do seasonal changes affect product quality?)",
    geographic_specificity |-> "Geographic Specificity (Why can this product only be obtained from this specific region?)",
    indigenous_knowledge |-> "Indigenous Knowledge (Traditional knowledge systems associated with this product)",
    community_guardians |-> "Community Guardians ( Which communities have traditionally been guardians of this knowledge?)",
    traditional_applications |-> "Traditional Applications (Detailed traditional uses in medicine, cosmetics, or daily life)",
    yield_per_collection |-> "Yield per Collection ( Typical quantity obtained per collection/processing cycle)" ]

\* keys the 'Natural' branch adds to results
natural_results ==
  [
    active_compounds |-> " Active Compounds (Key chemical compounds or active ingredients)",
    physical_properties |-> "Physical Properties (Color, consistency, aroma, and physical characteristics)",
    traditional_uses_natural |-> "Traditional Uses (How has this product been traditionally used?)",
    market_applications |-> " Market Applications ( Modern commercial applications and uses)",
    value_addition |-> "Value Addition Potential (Opportunities for processing into higher-value products)" ]

\* ---- GoogleFormProcessor._extract_*: key -> label read ----

\* _extract_applicant_info
applicant_info_fields ==
  [
    applicant_name |-> "Applicant/Orginization Name",
    applicant_type |-> "Applicant Type (Can be more than one option)",
    gmail_id |-> "Gmail ID",
    phone_number |-> "Phone Number (With country code)",
    complete_address |-> "Complete Address" ]

\* _extract_product_info
product_info_fields ==
  [
    product_name |-> "Product Name ( Exact name you want to register for GI protection)",
    common_names |-> "Common/Local Names (All alternative names by which this product is known locally)" ]

\* _extract_geographic_info
geographic_info_fields ==
  [
    region_of_origin |-> "Region of Origin",
    state_province |-> "State/Province (Primary state or province of production)",
    production_districts |-> "Production Districts (List all districts involved in traditional production)",
    specific_boundaries |-> "Specific Geographic Boundaries [Exact boundaries of the geographical area (villages, taluks, coordinates if available)]",
    geographic_connection |-> "Why is this product special to this region? (Explain the connection between geography and product uniqueness)" ]

\* _extract_agricultural_data
agricultural_data_fields ==
  [
    crop_plant_type |-> "Crop/Plant Type (Scientific name and variety of the plant/crop)",
    physical_characteristics |-> "Physical Characteristics( Describe size, color, shape, texture of the agricultural product )",
    taste_aroma |-> "Taste & Aroma Profile (Detailed description of taste, flavor, and aromatic properties)",
    nutritional_properties |-> "Nutritional Properties (Nutritional content, vitamins, minerals, and health benefits)",
    harvest_season |-> "Harvest Season [When is the product typically harvested? (months/seasons)]",
    soil_requirements |-> "Soil Requirements (Specific soil type, pH, and conditions needed for cultivation)",
    climate_requirements |-> "Climate Requirements ( Temperature, rainfall, humidity requirements for optimal growth )",
    traditional_methods |-> "Traditional Growing Methods (Traditional cultivation practices passed down through generations)",
    seeds_planting |-> "Seeds/Planting Material (Source and characteristics of traditional seeds or planting material used)",
    pest_control |-> "Natural Pest Control (Traditional methods of pest and disease management)",
    post_harvest |-> "Post-Harvest Processing [Steps taken immediately after harvest (drying, cleaning, sorting)]",
    storage_methods |-> "Traditional Storage Methods ( How the product is traditionally stored and preserved)",
    quality_grading |-> "Quality Grading (Traditional methods of quality assessment and grading)",
    average_yield |-> "Average Yield per Acre (Typical production quantity per unit area)",
    total_production |-> "Total Annual Production (Total quantity produced annually in the region)",
    number_farmers |-> "Number of Farmers Involved (Approximate number of farmers/producers in the region)",
    price_premium |-> "Price Premium ( How much more does this product sell for compared to similar products from other regions?)",
    export_markets |-> "Export Markets (Countries/regions where this product is exported)",
    farmer_income |-> "Farmer Income Impact (How has this product improved farmer incomes and livelihoods?)" ]

\* _extract_food_beverage_data
food_beverage_data_fields ==
  [
    food_category |-> "Food Category",
    main_ingredients |-> "Main Ingredients (List all primary ingredients and their sources)",
    taste_profile |-> "Taste Profile (Detailed description of taste, texture, and sensory characteristics)",
    nutritional_benefits |-> "Nutritional Benefits (Health benefits, nutritional content, medicinal properties if any)",
    shelf_life |-> "Shelf Life ( How long does the product stay fresh under normal conditions?)",
    traditional_recipe |-> "Traditional Recipe ( Detailed traditional recipe or preparation method )",
    special_techniques |-> "Secret/Special Techniques (Any unique techniques or secrets that make this product special)",
    traditional_equipment |-> "Traditional Equipment ( Special equipment, utensils, or tools used in preparation)",
    aging_process |-> "Aging/Fermentation Process (If applicable, describe aging, fermentation, or curing processes)",
    quality_control |-> "Quality Control in Preparation ( How is quality maintained during preparation?)",
    local_materials |-> "Local Raw Materials (Which ingredients must come from the specific geographical region?)",
    seasonal_availability |-> "Seasonal Availability (How does seasonality affect availability of ingredients and production?)",
    traditional_suppliers |-> "Traditional Suppliers (Who are the traditional suppliers of raw materials?)",
    festival_use |-> "Festival/Ceremonial Use (Is this food associated with specific festivals, ceremonies, or cultural events?)",
    consumption_patterns |-> "Traditional Consumption Patterns  (How and when is this food traditionally consumed?)",
    cultural_stories |-> "Cultural Stories/Legends (Any cultural stories, legends, or folklore associated with this food)",
    daily_production |-> "Daily/Monthly Production  (Typical production quantities per day or month)",
    number_producers |-> "Number of Traditional Producers (How many families/businesses are involved in traditional production?)",
    market_reach |-> "Market Reach (Local, regional, national, or international market presence)" ]

\* _extract_handicraft_data
handicraft_data_fields ==
  [
    craft_type |-> "Type of Handicraft",
    dimensions |-> "Product Dimensions (Typical size and dimensions of the finished product)",
    materials |-> "Materials Used  (All raw materials used and their local sources)",
    design_features |-> "Distinctive Design Features (What makes the design unique to this region?)",
    functional_use |-> "Functional Use ( How is this product used in daily life or special occasions?)",
    manufacturing_process |-> "Manufacturing Process (Step-by-step description of the traditional making process)",
    special_tools |-> "Special Tools & Equipment (Traditional tools and equipment used by artisans)",
    skill_requirements |-> "Skill Requirements (What specific skills and training do artisans need?)",
    time_to_create |-> "Time to Create (How long does it take to create one piece?)",
    design_patterns |-> "Design Patterns/Motifs (Traditional patterns, motifs, or designs that are characteristic of the region)",
    number_artisans |-> "Number of Active Artisans (How many artisans are currently practicing this craft?)",
    community_background |-> "Community Background ( Which communities/families have traditionally practiced this craft?)",
    skill_transfer |-> "Skill Transfer Method (How are skills passed down to new generations?)",
    training_period |-> "Training Period (How long does it take to train a new artisan?)",
    historical_significance |-> "Historical Significance (Historical importance and cultural significance of this craft)",
    traditional_uses |-> "Traditional Uses in Society  (How was/is this product used in traditional society?)",
    symbolic_meaning |-> "Symbolic Meaning (Any symbolic or spiritual significance of the craft)",
    production_capacity |-> "Production Capacity (How many pieces can an artisan produce per month?)",
    price_range |-> "Price Range  (Typical price range for different sizes/types)",
    market_challenges |-> "Market Challenges ( What challenges do artisans face in marketing their products?)" ]

\* _extract_textile_data
textile_data_fields ==
  [
    textile_type |-> "Type of Textile*",
    fiber_type |-> "Fiber Type (Thread count, weight, dimensions, thickness specifications)",
    color_palette |-> "Color Palette (Traditional colors used and sources of natural dyes)",
    pattern_characteristics |-> "Pattern/Design Characteristics (Distinctive patterns, motifs, or design elements)",
    loom_type |-> "Traditional Loom Type ( Type of loom used and its characteristics)",
    weaving_technique |-> "Weaving Technique ( Specific weaving techniques and methods used)",
    thread_preparation |-> "Thread Preparation (How are threads prepared, spun, and treated before weaving?)",
    dyeing_process |-> "Dyeing Process (Traditional dyeing methods and natural dye sources)",
    time_to_complete |-> "Time to Complete ( How long does it take to complete one piece?)",
    weaver_community |-> "Weaver Community ( Which communities have traditionally practiced this weaving?)",
    number_weavers |-> "Number of Active Weavers (Current number of practicing weavers)",
    skill_complexity |-> "Skill Complexity (Level of skill required and training needed)",
    design_creation |-> "Design Creation Process (How are traditional designs created and modified?)",
    traditional_uses |-> "Traditional Uses (How is this textile traditionally used in society?)",
    ceremonial_significance |-> "Ceremonial Significance (Use in weddings, festivals, or religious ceremonies)",
    social_status |-> "Social Status Indicators ( Does this textile indicate social status or community membership?)",
    production_per_weaver |-> "Production per Weaver (Average monthly production per weaver)",
    raw_material_costs |-> "Raw Material Costs ( Cost and availability of raw materials)",
    market_demand |-> "Market Demand ( Current market demand and customer base)" ]

\* _extract_natural_product_data
natural_product_data_fields ==
  [
    product_type |-> "Product Type",
    source_plant |-> "Source Plant/Material (Scientific name and description of source plant or natural material)",
    active_compounds |-> "Active Compounds (Key chemical compounds or active ingredients)",
    physical_properties |-> "Physical Properties (Color, consistency, aroma, and physical characteristics)",
    traditional_uses |-> "Traditional Uses (How has this product been traditionally used?)",
    collection_season |-> "Collection Season [ When is the raw material collected? (months/seasons)]",
    collection_methods |-> "Collection Methods  (Traditional methods of collection or harvesting)",
    processing_technique |-> "Processing Technique (How is the final product extracted or processed?)",
    traditional_equipment |-> "Traditional Equipment (Tools and equipment used in traditional processing)",
    quality_assessment |-> "Quality Assessment (How is quality determined and maintained?)",
    habitat_requirements |-> "Habitat Requirements (Specific environmental conditions needed for the source material)",
    sustainable_practices |-> "Sustainable Practices (Traditional conservation and sustainability practices)",
    seasonal_variations |-> "Seasonal Variations ( How do seasonal changes affect product quality?)",
    geographic_specificity |-> "Geographic Specificity (Why can this product only be obtained from this specific region?)",
    indigenous_knowledge |-> "Indigenous Knowledge (Traditional knowledge systems associated with this product)",
    community_guardians |-> "Community Guardians ( Which communities have traditionally been guardians of this knowledge?)",
    traditional_applications |-> "Traditional Applications (Detailed traditional uses in medicine, cosmetics, or daily life)",
    yield_per_collection |-> "Yield per Collection ( Typical quantity obtained per collection/processing cycle)",
    market_applications |-> "Market Applications ( Modern commercial applications and uses)",
    value_addition |-> "Value Addition Potential (Opportunities for processing into higher-value products)" ]

\* _extract_historical_evidence
historical_evidence_fields ==
  [
    production_history |-> "Production History (How long has this product been made in this region?)",
    historical_documents |-> "Historical Documents (Any historical references, documents, or evidence)",
    cultural_evolution |-> "Cultural Evolution  (How has production evolved while maintaining traditional character?)" ]

\* _extract_economic_impact
economic_impact_fields ==
  [
    producer_income |-> "Producer Income (Average annual income per producer from this product )",
    employment_generation |-> "Employment Generation (Number of people employed directly and indirectly)",
    regional_impact |-> "Regional Economic Impact (Overall economic contribution to the region)",
    current_challenges |-> "Current Challenges (Main challenges facing production and marketing)",
    growth_potential |-> "Growth Potential (Potential for expanding production and markets)",
    support_needed |-> "Support Needed ( What support is needed for development?)" ]

\* _extract_supporting_documents
supporting_documents_fields ==
  [
    product_photos |-> "Product Photos ( High-quality photos of the product)",
    process_photos |-> "Production Process Photos (Photos showing production/making process)",
    supporting_docs |-> "Supporting Documents (Any certificates, awards, research papers, or other evidence)",
    unique_id |-> "Unique Application ID [Enter a unique identifier for your application (used for file naming)]" ]

\* ---- ConditionalFormProcessor.process_form_response: key -> label read ----

\* process_form_response group applicant_info
cfp_applicant_info ==
  [
    applicant_name |-> "Applicant/Orginization Name",
    applicant_type |-> "Applicant Type (Can be more than one option)",
    gmail_id |-> "Gmail ID",
    phone_number |-> "Phone Number (With country code)",
    complete_address |-> "Complete Address" ]

\* process_form_response group product_info
cfp_product_info ==
  [
    product_name |-> "Product Name ( Exact name you want to register for GI protection)",
    common_names |-> "Common/Local Names (All alternative names by which this product is known locally)" ]

\* process_form_response group geographic_info
cfp_geographic_info ==
  [
    region_of_origin |-> "Region of Origin",
    state_province |-> "State/Province (Primary state or province of production)",
    production_districts |-> "Production Districts (List all districts involved in traditional production)",
    specific_boundaries |-> "Specific Geographic Boundaries [Exact boundaries of the geographical area (villages, taluks, coordinates if available)]",
    geographic_connection |-> "Why is this product special to this region? (Explain the connection between geography and product uniqueness)" ]

\* process_form_response group historical_evidence
cfp_historical_evidence ==
  [
    production_history |-> "Production History (How long has this product been made in this region?)",
    historical_documents |-> "Historical Documents (Any historical references, documents, or evidence)",
    cultural_evolution |-> "Cultural Evolution  (How has production evolved while maintaining traditional character?)" ]

\* process_form_response group economic_impact
cfp_economic_impact ==
  [
    producer_income |-> "Producer Income (Average annual income per producer from this product )",
    employment_generation |-> "Employment Generation (Number of people employed directly and indirectly)",
    regional_impact |-> "Regional Economic Impact (Overall economic contribution to the region)",
    current_challenges |-> "Current Challenges (Main challenges facing production and marketing)",
    growth_potential |-> "Growth Potential (Potential for expanding production and markets)",
    support_needed |-> "Support Needed ( What support is needed for development?)" ]

\* process_form_response group supporting_documents
cfp_supporting_documents ==
  [
    product_photos |-> "Product Photos ( High-quality photos of the product)",
    process_photos |-> "Production Process Photos (Photos showing production/making process)",
    supporting_docs |-> "Supporting Documents (Any certificates, awards, research papers, or other evidence)",
    unique_id |-> "Unique Application ID [Enter a unique identifier for your application (used for file naming)]" ]

\* ---- The schema registry as a whole ----

\* the five categories, in form order
CategoryNames ==
  << "Agricultural Products",
     "Food & Beverages",
     "Handicrafts & Artisanal Products",
     "Textiles & Fabrics",
     "Natural Products & Extracts" >>

\* form_structure['conditional_sections']: category name -> its pool
conditional_sections ==
  ("Agricultural Products" :> agricultural_pool) @@
  ("Food & Beverages" :> food_pool) @@
  ("Handicrafts & Artisanal Products" :> handicrafts_pool) @@
  ("Textiles & Fabrics" :> textiles_pool) @@
  ("Natural Products & Extracts" :> natural_pool)

\* the structure analyze_google_sheets writes to form_structure_analysis.json
form_structure ==
  [ universal_sections |-> universal_sections,
    conditional_sections |-> conditional_sections,
    universal_closing_sections |-> universal_closing_sections ]

\* ConditionalFormProcessor.load_form_structure: the file's content, or {} when
\* form_structure_analysis.json is not there
load_form_structure(file_found) == IF file_found THEN form_structure ELSE EmptyDict

\* ---- DataProcessor.extract_paper_sections_data ----

\* the label of the category question in the response sheet
CategoryQuestion ==
  "Select Product Category \n\nChoose the category that best describes your product"

Sections ==
  {"abstract", "introduction", "literature_review", "methodology", "results", "conclusion"}

\* a dict literal {key: row.get(label, default) ...} over a key -> label table
ReadFields(fields, row, default) ==
  [k \in DOMAIN fields |-> Get(row, fields[k], default)]

\* the key -> label table of each section's base dict
base_fields ==
  [ abstract |-> abstract_base,
    introduction |-> introduction_base,
    literature_review |-> literature_review_base,
    methodology |-> methodology_base,
    results |-> results_base,
    conclusion |-> conclusion_base ]

\* sections_data as first built, before any category branch
base_sections_data(row) ==
  [s \in Sections |-> ReadFields(base_fields[s], row, PyStr(""))]

\* the chain with the Agricultural branch adding the Food results table
extension_chain_crossed ==
  << [sub |-> "Agricultural", methodology |-> agricultural_methodology, results |-> food_results],
     [sub |-> "Food", methodology |-> food_methodology, results |-> food_results],
     [sub |-> "Handicraft", methodology |-> handicraft_methodology, results |-> handicraft_results],
     [sub |-> "Textile", methodology |-> textile_methodology, results |-> textile_results],
     [sub |-> "Natural", methodology |-> natural_methodology, results |-> natural_results] >>

\* the chain with the Agricultural branch storing the crop answer under the
\* base key raw_materials of methodology
extension_chain_colliding ==
  << [sub |-> "Agricultural",
      methodology |-> ("raw_materials" :> agricultural_methodology.crop_type)
                        @@ agricultural_methodology,
      results |-> agricultural_results],
     [sub |-> "Food", methodology |-> food_methodology, results |-> food_results],
     [sub |-> "Handicraft", methodology |-> handicraft_methodology, results |-> handicraft_results],
     [sub |-> "Textile", methodology |-> textile_methodology, results |-> textile_results],
     [sub |-> "Natural", methodology |-> natural_methodology, results |-> natural_results] >>

\* the if/elif chain: the substring tested by each branch and the tables it adds,
\* in the order of the chain
extension_chain ==
  << [sub |-> "Agricultural", methodology |-> agricultural_methodology, results |-> agricultural_results],
     [sub |-> "Food", methodology |-> food_methodology, results |-> food_results],
     [sub |-> "Handicraft", methodology |-> handicraft_methodology, results |-> handicraft_results],
     [sub |-> "Textile", methodology |-> textile_methodology, results |-> textile_results],
     [sub |-> "Natural", methodology |-> natural_methodology, results |-> natural_results] >>

\* the chain taking the last branch whose substring occurs in the category
branch_taken_last(category) ==
  LET hits == {i \in 1..Len(extension_chain) : Contains(extension_chain[i].sub, category)}
  IN  IF hits = {} THEN 0 ELSE CHOOSE i \in hits : \A j \in hits : i >= j

\* the branch the chain takes for a category string: the first whose substring
\* occurs in it, 0 when none does
branch_taken(category) ==
  LET hits == {i \in 1..Len(extension_chain) : Contains(extension_chain[i].sub, category)}
  IN  IF hits = {} THEN 0 ELSE CHOOSE i \in hits : \A j \in hits : i <= j

\* extension_fields with the taken branch's results table also added to the
\* conclusion section
extension_fields_spilling(category) ==
  LET b == branch_taken(category)
  IN  [s \in Sections |->
        IF b = 0 \/ s \notin {"methodology", "results", "conclusion"} THEN EmptyDict
        ELSE IF s = "methodology" THEN extension_chain[b].methodology
        ELSE extension_chain[b].results]

\* the key -> label tables the taken branch adds, per section
extension_fields(category) ==
  LET b == branch_taken(category)
  IN  [s \in Sections |->
        IF b = 0 \/ s \notin {"methodology", "results"} THEN EmptyDict
        ELSE IF s = "methodology" THEN extension_chain[b].methodology
        ELSE extension_chain[b].results]

\* extract_paper_sections_data reading an absent category answer as
\* 'Agricultural Products' instead of ''
extract_paper_sections_data_defaulted(row) ==
  LET raw == Get(row, CategoryQuestion, PyStr("Agricultural Products"))
  IN  IF ~IsStr(raw)
      THEN [exc |-> "AttributeError", ret |-> PyNone]
      ELSE LET category == strip(raw.s)
               ext == extension_fields(category)
           IN  [exc |-> "none",
                ret |-> [s \in Sections |->
                          Update(base_sections_data(row)[s],
                                 ReadFields(ext[s], row, PyStr("")))]]

\* the whole method: [exc, ret]
extract_paper_sections_data(row) ==
  LET raw == Get(row, CategoryQuestion, PyStr(""))
  IN  IF ~IsStr(raw)
      THEN \* .strip() on None or on a float
           [exc |-> "AttributeError", ret |-> PyNone]
      ELSE LET category == strip(raw.s)
               ext == extension_fields(category)
           IN  [exc |-> "none",
                ret |-> [s \in Sections |->
                          Update(base_sections_data(row)[s],
                                 ReadFields(ext[s], row, PyStr("")))]]

\* ---- GoogleFormProcessor ----

\* category_map with the codes "4" and "5" naming the same category
category_map_merged ==
  ("1" :> "Agricultural Products") @@
  ("2" :> "Food & Beverages") @@
  ("3" :> "Handicrafts & Artisanal Products") @@
  ("4" :> "Textiles & Fabrics") @@
  ("5" :> "Textiles & Fabrics")

\* category_map of _extract_product_category
category_map ==
  ("1" :> "Agricultural Products") @@
  ("2" :> "Food & Beverages") @@
  ("3" :> "Handicrafts & Artisanal Products") @@
  ("4" :> "Textiles & Fabrics") @@
  ("5" :> "Natural Products & Extracts")

\* {key: str(row.get(label, "")) ...}
ReadStrFields(fields, row) ==
  [k \in DOMAIN fields |-> PyStr(str(Get(row, fields[k], PyStr(""))))]

_extract_product_category(row) ==
  LET category_selection == str(Get(row, "Select Product Category", PyStr("")))
  IN  Get(category_map, category_selection, "Unknown")

\* _extract_category_specific_data with the Textiles branch calling the
\* Natural Products extractor
_extract_category_specific_data_crossed(row) ==
  LET category == _extract_product_category(row)
  IN  IF category = "Agricultural Products" THEN ReadStrFields(agricultural_data_fields, row)
      ELSE IF category = "Food & Beverages" THEN ReadStrFields(food_beverage_data_fields, row)
      ELSE IF category = "Handicrafts & Artisanal Products" THEN ReadStrFields(handicraft_data_fields, row)
      ELSE IF category = "Textiles & Fabrics" THEN ReadStrFields(natural_product_data_fields, row)
      ELSE IF category = "Natural Products & Extracts" THEN ReadStrFields(natural_product_data_fields, row)
      ELSE EmptyDict

_extract_category_specific_data(row) ==
  LET category == _extract_product_category(row)
  IN  IF category = "Agricultural Products" THEN ReadStrFields(agricultural_data_fields, row)
      ELSE IF category = "Food & Beverages" THEN ReadStrFields(food_beverage_data_fields, row)
      ELSE IF category = "Handicrafts & Artisanal Products" THEN ReadStrFields(handicraft_data_fields, row)
      ELSE IF category = "Textiles & Fabrics" THEN ReadStrFields(textile_data_fields, row)
      ELSE IF category = "Natural Products & Extracts" THEN ReadStrFields(natural_product_data_fields, row)
      ELSE EmptyDict

\* the form_data dict extract_form_data builds from the first row
form_data_of(row) ==
  [ applicant_info |-> ReadStrFields(applicant_info_fields, row),
    product_info |-> ReadStrFields(product_info_fields, row),
    geographic_info |-> ReadStrFields(geographic_info_fields, row),
    product_category |-> PyStr(_extract_product_category(row)),
    category_specific_data |-> _extract_category_specific_data(row),
    historical_evidence |-> ReadStrFields(historical_evidence_fields, row),
    economic_impact |-> ReadStrFields(economic_impact_fields, row),
    supporting_documents |-> ReadStrFields(supporting_documents_fields, row) ]

\* ---- ConditionalFormProcessor ----

Upper == "ABCDEFGHIJKLMNOPQRSTUVWXYZ"
Lower == "abcdefghijklmnopqrstuvwxyz"

\* c.lower() of one character
lower_char(c) ==
  LET hit == {i \in 1..Len(Upper) : CharAt(Upper, i) = c}
  IN  IF hit = {} THEN c ELSE CharAt(Lower, CHOOSE i \in hit : TRUE)

\* the concatenation of f(c) over the characters c of s[lo..hi], in order
RECURSIVE lower_between(_, _, _)
lower_between(s, lo, hi) ==
  IF lo > hi THEN ""
  ELSE IF lo = hi THEN lower_char(CharAt(s, lo))
  ELSE LET mid == (lo + hi) \div 2
       IN  lower_between(s, lo, mid) \o lower_between(s, mid + 1, hi)

\* s.lower()
lower(s) == lower_between(s, 1, Len(s))

RECURSIVE replace_between(_, _, _, _, _)
replace_between(s, old, new, lo, hi) ==
  IF lo > hi THEN ""
  ELSE IF lo = hi THEN (IF CharAt(s, lo) = old THEN new ELSE CharAt(s, lo))
  ELSE LET mid == (lo + hi) \div 2
       IN  replace_between(s, old, new, lo, mid) \o replace_between(s, old, new, mid + 1, hi)

\* s.replace(old, new), old a single character
replace(s, old, new) == replace_between(s, old, new, 1, Len(s))

\* the chain with "/" replaced by a space instead of an underscore
normalize_slash_to_space(field) ==
  replace(replace(replace(replace(replace(replace(replace(replace(
    lower(field), " ", "_"), "(", ""), ")", ""), "[", ""), "]", ""), "?", ""), "/", " "), "&", "and")

\* the chain without the final replacement of "&"
normalize_keeping_ampersand(field) ==
  replace(replace(replace(replace(replace(replace(replace(
    lower(field), " ", "_"), "(", ""), ")", ""), "[", ""), "]", ""), "?", ""), "/", "_")

\* field.lower().replace(" ", "_")...replace("&", "and")
normalize(field) ==
  replace(replace(replace(replace(replace(replace(replace(replace(
    lower(field), " ", "_"), "(", ""), ")", ""), "[", ""), "]", ""), "?", ""), "/", "_"), "&", "and")

\* the fields of the pool that pass `pd.notna(value) and str(value).strip()`
kept_fields(conditional_fields, row) ==
  {i \in 1..Len(conditional_fields) :
     LET value == Get(row, conditional_fields[i], PyStr(""))
     IN  notna(value) /\ strip(str(value)) # ""}

\* extract_conditional_data falling back to the Agricultural pool when the
\* category names no pool
extract_conditional_data_fallback(fs, row) ==
  LET product_category == Get(row, "Select Product Category", PyStr(""))
      pools == Get(fs, "conditional_sections", EmptyDict)
      conditional_fields ==
        IF IsStr(product_category)
        THEN Get(pools, product_category.s, agricultural_pool)
        ELSE agricultural_pool
      kept == kept_fields(conditional_fields, row)
      key == [i \in kept |-> normalize(conditional_fields[i])]
      last(k) == CHOOSE i \in kept : key[i] = k /\ \A j \in kept : key[j] = k => j <= i
  IN  [k \in {key[i] : i \in kept} |-> PyStr(str(row[conditional_fields[last(k)]]))]

\* extract_conditional_data, for a processor holding the loaded structure fs
extract_conditional_data(fs, row) ==
  LET product_category == Get(row, "Select Product Category", PyStr(""))
      pools == Get(fs, "conditional_sections", EmptyDict)
      conditional_fields ==
        IF IsStr(product_category) THEN Get(pools, product_category.s, <<>>) ELSE <<>>
      kept == kept_fields(conditional_fields, row)
      key == [i \in kept |-> normalize(conditional_fields[i])]
      \* a later field of the pool overwrites an earlier one with the same key
      last(k) == CHOOSE i \in kept : key[i] = k /\ \A j \in kept : key[j] = k => j <= i
  IN  [k \in {key[i] : i \in kept} |-> PyStr(str(row[conditional_fields[last(k)]]))]

\* {key: row.get(label, "") ...}: the raw value, not str() of it
ReadRawFields(fields, row) == ReadFields(fields, row, PyStr(""))

process_form_response(fs, row) ==
  [ applicant_info |-> ReadRawFields(cfp_applicant_info, row),
    product_info |-> ReadRawFields(cfp_product_info, row),
    geographic_info |-> ReadRawFields(cfp_geographic_info, row),
    product_category |-> Get(row, "Select Product Category", PyStr("")),
    category_specific_data |-> extract_conditional_data(fs, row),
    historical_evidence |-> ReadRawFields(cfp_historical_evidence, row),
    economic_impact |-> ReadRawFields(cfp_economic_impact, row),
    supporting_documents |-> ReadRawFields(cfp_supporting_documents, row) ]

\* ---- Inputs ----

\* every label some table of the source names
AllLabels ==
  Range(universal_sections) \cup Range(universal_closing_sections)
  \cup UNION {Range(conditional_sections[c]) : c \in DOMAIN conditional_sections}
  \cup UNION {{base_fields[s][k] : k \in DOMAIN base_fields[s]} : s \in Sections}
  \cup UNION {{extension_chain[i].methodology[k] : k \in DOMAIN extension_chain[i].methodology}
              \cup {extension_chain[i].results[k] : k \in DOMAIN extension_chain[i].results}
              : i \in 1..Len(extension_chain)}

\* the two labels under which the source looks for the category
CategoryLabels == {CategoryQuestion, "Select Product Category"}

\* category answers: empty, null, the numeric codes, the five names, an
\* unknown name, and names in which several branch substrings occur
CategoryInputs ==
  {PyStr(""), PyNone, PyNaN}
  \cup {PyStr(c) : c \in DOMAIN category_map}
  \cup {PyStr(n) : n \in Range(CategoryNames)}
  \cup {PyStr("Spices & Condiments"),
        PyStr("Natural Food & Textile Products"),
        PyStr("Handicraft from Agricultural waste")}

\* answers to any other question
FieldInputs == {PyStr("answer")}

\* the largest number of questions, besides the category, one response answers
MaxFields == 1

RECURSIVE SubsetsUpTo(_, _)
SubsetsUpTo(S, n) ==
  IF n = 0 THEN {{}}
  ELSE LET smaller == SubsetsUpTo(S, n - 1)
       IN  smaller \cup {T \cup {x} : T \in smaller, x \in S}

\* the responses whose category answer, if any, stands under category_label
Responses(category_label) ==
  LET category_part ==
        {EmptyDict} \cup {category_label :> v : v \in CategoryInputs}
      other_part ==
        UNION {[D -> FieldInputs] : D \in SubsetsUpTo(AllLabels \ {category_label}, MaxFields)}
  IN  {c @@ f : c \in category_part, f \in other_part}

\* ---- The state machine ----

NoCall == [op |-> "none"]

\* no processor has been used yet
Fresh ==
  /\ data = PyNone
  /\ processed_data = EmptyDict
  /\ call = NoCall

Init ==
  /\ response \in UNION {Responses(l) : l \in CategoryLabels}
  /\ Fresh

\* extract_paper_sections_data keeping sections_data between calls: each call
\* updates the sections the call before it left
ExtractPaperSections_accumulating ==
  LET r == extract_paper_sections_data(response)
      kept == IF call.op = "extract_paper_sections_data" /\ call.exc = "none"
                  /\ r.exc = "none"
              THEN [s \in Sections |-> Update(call.ret[s], r.ret[s])]
              ELSE r.ret
  IN  /\ call' = [op |-> "extract_paper_sections_data", exc |-> r.exc, ret |-> kept]
      /\ UNCHANGED <<response, data, processed_data>>

\* DataProcessor.extract_paper_sections_data on the response
ExtractPaperSections ==
  LET r == extract_paper_sections_data(response)
  IN  /\ call' = [op |-> "extract_paper_sections_data", exc |-> r.exc, ret |-> r.ret]
      /\ UNCHANGED <<response, data, processed_data>>

\* a pandas DataFrame holding the given rows
DataFrame(rows) == [t |-> "DataFrame", rows |-> rows]

\* GoogleFormProcessor.load_data: the file is read into data, or the read
\* fails (or the extension is unsupported) and data stays as it was
LoadData(readable, rows) ==
  IF readable
  THEN /\ data' = DataFrame(rows)
       /\ call' = [op |-> "load_data", exc |-> "none", ret |-> TRUE]
       /\ UNCHANGED <<response, processed_data>>
  ELSE /\ call' = [op |-> "load_data", exc |-> "none", ret |-> FALSE]
       /\ UNCHANGED <<response, data, processed_data>>

\* GoogleFormProcessor.extract_form_data
ExtractFormData ==
  IF data = PyNone \/ data.rows = <<>>
  THEN /\ call' = [op |-> "extract_form_data", exc |-> "none", ret |-> EmptyDict]
       /\ UNCHANGED <<response, data, processed_data>>
  ELSE LET form_data == form_data_of(data.rows[1])
       IN  /\ processed_data' = form_data
           /\ call' = [op |-> "extract_form_data", exc |-> "none", ret |-> form_data]
           /\ UNCHANGED <<response, data>>

\* ConditionalFormProcessor().process_form_response(row), the constructor
\* having found form_structure_analysis.json or not
ProcessFormResponse(file_found) ==
  LET fs == load_form_structure(file_found)
  IN  /\ call' = [op |-> "process_form_response", exc |-> "none",
                  form_structure |-> fs, ret |-> process_form_response(fs, response)]
      /\ UNCHANGED <<response, data, processed_data>>

Next ==
  \/ ExtractPaperSections
  \/ \E readable \in BOOLEAN, rows \in {<<>>, <<response>>} : LoadData(readable, rows)
  \/ ExtractFormData
  \/ \E file_found \in BOOLEAN : ProcessFormResponse(file_found)

Spec == Init /\ [][Next]_vars

\* ---- The section mapper alone: responses as DataProcessor reads them ----

InitMapper ==
  /\ response \in Responses(CategoryQuestion)
  /\ Fresh

NextMapper == ExtractPaperSections

SpecMapper == InitMapper /\ [][NextMapper]_vars

\* ---- The two routers alone: rows as the form processors read them ----

InitRouter ==
  /\ response \in Responses("Select Product Category")
  /\ Fresh

NextRouter ==
  \/ \E readable \in BOOLEAN, rows \in {<<>>, <<response>>} : LoadData(readable, rows)
  \/ ExtractFormData
  \/ \E file_found \in BOOLEAN : ProcessFormResponse(file_found)

SpecRouter == InitRouter /\ [][NextRouter]_vars


\* ---- Vocabulary of the properties ----

\* the labels of a category's conditional pool
Pool(c) == Range(conditional_sections[c])

\* the labels of every conditional pool but c's: of all five when c is no category
OtherPools(c) == UNION {Pool(d) : d \in (DOMAIN conditional_sections) \ {c}}

\* a response without the fields under the given labels
Without(row, labels) == [l \in (DOMAIN row) \ labels |-> row[l]]

\* a response with its category answer, under the given label, replaced
WithCategory(row, label, v) == (label :> v) @@ row

\* the category the section mapper's chain puts a response in
MapperCategory(row) ==
  LET raw == Get(row, CategoryQuestion, PyStr(""))
      b == IF IsStr(raw) THEN branch_taken(strip(raw.s)) ELSE 0
  IN  IF b = 0 THEN "Unknown" ELSE CategoryNames[b]

\* the label each key of each section of the built document was read from
LabelsRead(row) ==
  LET ext == extension_fields(strip(Get(row, CategoryQuestion, PyStr("")).s))
  IN  [s \in Sections |-> Update(base_fields[s], ext[s])]

\* the section mapper has returned a document for the response
SectionsBuilt == call.op = "extract_paper_sections_data" /\ call.exc = "none"

\* the uploaded-file router has returned the form data of the loaded row
FormExtracted == call.op = "extract_form_data" /\ call.ret # EmptyDict

\* the schema-driven router has returned its result for the response
FormProcessed == call.op = "process_form_response"

\* a non-empty answer stands under the label
Answered(row, label) ==
  label \in DOMAIN row /\ IsStr(row[label]) /\ strip(row[label].s) # ""

\* ---- C1 ----
\* C1: the document extract_paper_sections_data builds surfaces no value read
\* from a label of the conditional pool of a category other than the one the
\* response is classified into: it is the document built from the response
\* with those fields taken out.
C1_NoForeignPoolValue ==
  SectionsBuilt =>
    call.ret = extract_paper_sections_data(
                 Without(response, OtherPools(MapperCategory(response)))).ret

\* ---- C3 ----
\* C3: a response whose category field holds the code "3" is classified like,
\* and yields the same category-specific fields and the same
\* methodology/results extension as, the otherwise equal response whose
\* category field holds "Handicrafts & Artisanal Products"; for the
\* uploaded-file classifier and for the section mapper's chain alike.
C3_Code3LikeFreeText ==
  LET name == PyStr("Handicrafts & Artisanal Products")
  IN  /\ (FormExtracted
            /\ Get(data.rows[1], "Select Product Category", PyNone) = PyStr("3")) =>
          LET named == WithCategory(data.rows[1], "Select Product Category", name)
          IN  /\ call.ret.product_category = PyStr(_extract_product_category(named))
              /\ call.ret.category_specific_data = _extract_category_specific_data(named)
      /\ (SectionsBuilt /\ Get(response, CategoryQuestion, PyNone) = PyStr("3")) =>
          LET named == extract_paper_sections_data(
                         WithCategory(response, CategoryQuestion, name)).ret
          IN  /\ MapperCategory(response)
                   = MapperCategory(WithCategory(response, CategoryQuestion, name))
              /\ \A s \in {"methodology", "results"} :
                   /\ DOMAIN call.ret[s] = DOMAIN named[s]
                   /\ \A k \in (DOMAIN call.ret[s]) \ {"category"} :
                        call.ret[s][k] = named[s][k]

\* ---- C4 ----
\* C4: classifying or building sections never raises, whatever is missing:
\* with the category field absent, empty or null, and any other field absent
\* or null, extract_paper_sections_data and the GoogleFormProcessor extractors
\* complete normally, and every key whose field is absent or null holds the
\* empty string.
C4_MissingNeverRaises ==
  /\ call.op = "extract_paper_sections_data" =>
       /\ call.exc = "none"
       /\ \A s \in Sections : \A k \in DOMAIN call.ret[s] :
            LET l == LabelsRead(response)[s][k]
            IN  (l \notin DOMAIN response \/ ~IsStr(response[l])) =>
                  call.ret[s][k] = PyStr("")
  /\ FormExtracted =>
       /\ call.exc = "none"
       /\ Get(data.rows[1], "Select Product Category", PyNone) \in {PyStr(""), PyNone, PyNaN} =>
            call.ret.product_category = PyStr("Unknown")

\* ---- C2 ----
\* the category a router classifies the row into
RoutedCategory(op, row) ==
  IF op = "extract_form_data" THEN _extract_product_category(row)
  ELSE LET v == Get(row, "Select Product Category", PyStr(""))
       IN  IF IsStr(v) /\ v.s \in DOMAIN conditional_sections THEN v.s ELSE "Unknown"

\* C2: for each of the five categories, the category-specific data either
\* router returns (GoogleFormProcessor._extract_category_specific_data,
\* ConditionalFormProcessor.extract_conditional_data) holds no value of a
\* label of another category's pool: it is what the router returns for the
\* row with all those labels removed.
C2_RoutedDataOwnPoolOnly ==
  /\ FormExtracted =>
       LET row == data.rows[1]
           c == RoutedCategory(call.op, row)
       IN  c \in Range(CategoryNames) =>
             call.ret.category_specific_data
               = _extract_category_specific_data(Without(row, OtherPools(c)))
  /\ FormProcessed =>
       LET c == RoutedCategory(call.op, response)
       IN  c \in Range(CategoryNames) =>
             call.ret.category_specific_data
               = extract_conditional_data(call.form_structure,
                                          Without(response, OtherPools(c)))

\* a row classified Textiles that answers a question of another pool has
\* been routed by extract_form_data
C2_Witness ==
  /\ FormExtracted
  /\ RoutedCategory(call.op, data.rows[1]) = "Textiles & Fabrics"
  /\ \E l \in OtherPools("Textiles & Fabrics") : Answered(data.rows[1], l)
  /\ \A k \in DOMAIN call.ret.category_specific_data :
       call.ret.category_specific_data[k] = PyStr("")

\* ---- C5 ----
\* C5: a response whose category field is the empty string or is missing
\* classifies to Unknown, and the methodology and results sections built for
\* it hold exactly their base keys: no key of any category's extension.
C5_EmptyCategoryBaseOnly ==
  /\ (FormExtracted
        /\ Get(data.rows[1], "Select Product Category", PyStr("")) = PyStr("")) =>
       /\ call.ret.product_category = PyStr("Unknown")
       /\ call.ret.category_specific_data = EmptyDict
  /\ (call.op = "extract_paper_sections_data"
        /\ Get(response, CategoryQuestion, PyStr("")) = PyStr("")) =>
       /\ call.exc = "none"
       /\ MapperCategory(response) = "Unknown"
       /\ DOMAIN call.ret.methodology = DOMAIN methodology_base
       /\ DOMAIN call.ret.results = DOMAIN results_base

\* sections have been built from a response without a category answer that
\* answers a question some extension reads
C5_Witness ==
  /\ SectionsBuilt
  /\ CategoryQuestion \notin DOMAIN response
  /\ \E i \in 1..Len(extension_chain) :
       \E k \in DOMAIN extension_chain[i].methodology :
         Answered(response, extension_chain[i].methodology[k])
  /\ DOMAIN call.ret.methodology = DOMAIN methodology_base

\* ---- C6 ----
\* the groups both routers build from the universal and the closing questions
UniversalGroups ==
  {"applicant_info", "product_info", "geographic_info",
   "historical_evidence", "economic_impact", "supporting_documents"}

\* C6: when the row's category is not recognised (empty included), the
\* category-specific data is the empty mapping, the six universal and closing
\* groups are still produced with all their keys, and nothing is raised.
C6_UnknownHasNoConditionalFields ==
  /\ (FormExtracted /\ RoutedCategory(call.op, data.rows[1]) = "Unknown") =>
       /\ call.exc = "none"
       /\ call.ret.category_specific_data = EmptyDict
       /\ call.ret.product_category = PyStr("Unknown")
       /\ UniversalGroups \subseteq DOMAIN call.ret
       /\ DOMAIN call.ret.applicant_info = DOMAIN applicant_info_fields
       /\ DOMAIN call.ret.product_info = DOMAIN product_info_fields
       /\ DOMAIN call.ret.geographic_info = DOMAIN geographic_info_fields
       /\ DOMAIN call.ret.historical_evidence = DOMAIN historical_evidence_fields
       /\ DOMAIN call.ret.economic_impact = DOMAIN economic_impact_fields
       /\ DOMAIN call.ret.supporting_documents = DOMAIN supporting_documents_fields
  /\ (FormProcessed /\ RoutedCategory(call.op, response) = "Unknown") =>
       /\ call.exc = "none"
       /\ call.ret.category_specific_data = EmptyDict
       /\ UniversalGroups \subseteq DOMAIN call.ret
       /\ DOMAIN call.ret.applicant_info = DOMAIN cfp_applicant_info
       /\ DOMAIN call.ret.product_info = DOMAIN cfp_product_info
       /\ DOMAIN call.ret.geographic_info = DOMAIN cfp_geographic_info
       /\ DOMAIN call.ret.historical_evidence = DOMAIN cfp_historical_evidence
       /\ DOMAIN call.ret.economic_impact = DOMAIN cfp_economic_impact
       /\ DOMAIN call.ret.supporting_documents = DOMAIN cfp_supporting_documents

\* process_form_response, with the form structure loaded, has routed a row
\* of an unrecognised category that answers a conditional question
C6_Witness ==
  /\ FormProcessed
  /\ call.form_structure # EmptyDict
  /\ Get(response, "Select Product Category", PyNone) = PyStr("Spices & Condiments")
  /\ \E l \in Pool("Agricultural Products") : Answered(response, l)
  /\ call.ret.category_specific_data = EmptyDict

\* ---- C7 ----
\* the sections no category branch touches
Unextended == Sections \ {"methodology", "results"}

\* the response with its category answer replaced by each string input, or removed
CategoryVariants(row) ==
  {WithCategory(row, CategoryQuestion, v) : v \in {w \in CategoryInputs : IsStr(w)}}
    \cup {Without(row, {CategoryQuestion})}

\* C7: only methodology and results are category-extended: for responses that
\* differ only in the category answer (any of the five categories or an
\* unrecognised or absent one), abstract, introduction, literature_review and
\* conclusion have the same keys, read from the same labels, with the same
\* values except where the key shows the category answer itself.
C7_OtherSectionsCategoryInvariant ==
  SectionsBuilt =>
    \A other \in CategoryVariants(response) :
      LET built == extract_paper_sections_data(other).ret
      IN  \A s \in Unextended :
            /\ DOMAIN call.ret[s] = DOMAIN base_fields[s]
            /\ DOMAIN built[s] = DOMAIN call.ret[s]
            /\ LabelsRead(other)[s] = LabelsRead(response)[s]
            /\ \A k \in DOMAIN built[s] :
                 LabelsRead(response)[s][k] # CategoryQuestion =>
                   built[s][k] = call.ret[s][k]

\* sections have been built for a Textiles response: results is extended,
\* conclusion is not
C7_Witness ==
  /\ SectionsBuilt
  /\ MapperCategory(response) = "Textiles & Fabrics"
  /\ DOMAIN call.ret.results # DOMAIN results_base
  /\ DOMAIN call.ret.conclusion = DOMAIN conclusion_base

\* ---- C8 ----
\* each pool's questions, surrounding whitespace removed
StrippedPools ==
  [c \in DOMAIN conditional_sections |-> {strip(p) : p \in Pool(c)}]

\* the tables of the five extensions, per extended section, in category order
ExtensionTables ==
  [ methodology |-> << agricultural_methodology, food_methodology, handicraft_methodology,
                       textile_methodology, natural_methodology >>,
    results |-> << agricultural_results, food_results, handicraft_results,
                   textile_results, natural_results >> ]

\* every label a branch of the chain reads is a question of that branch's own
\* pool (up to surrounding whitespace) and of no other pool
ExtensionLabelsOwnPool ==
  \A i \in 1..Len(extension_chain) : \A s \in {"methodology", "results"} :
    \A k \in DOMAIN extension_chain[i][s] :
      LET label == extension_chain[i][s][k]
      IN  /\ strip(label) \in StrippedPools[CategoryNames[i]]
          /\ \A d \in (DOMAIN conditional_sections) \ {CategoryNames[i]} :
               /\ strip(label) \notin StrippedPools[d]
               /\ label \notin Pool(d)

\* the extensions some key of which is in the sections built
ExtensionsApplied ==
  {i \in 1..Len(CategoryNames) :
     \E s \in {"methodology", "results"} :
       (DOMAIN ExtensionTables[s][i]) \cap
         ((DOMAIN call.ret[s]) \ DOMAIN base_fields[s]) # {}}

EnumerationOrder == << "Agricultural", "Food", "Handicraft", "Textile", "Natural" >>

\* the categories whose substring occurs in the response's category answer
Matches ==
  LET raw == Get(response, CategoryQuestion, PyStr(""))
  IN  IF IsStr(raw)
      THEN {i \in 1..Len(EnumerationOrder) : Contains(EnumerationOrder[i], strip(raw.s))}
      ELSE {}

\* C9: when the category answer matches more than one category by substring,
\* the category chosen is the first match in the order Agricultural, Food,
\* Handicrafts, Textiles, Natural, and only its extension is applied.
C9_FirstMatchWins ==
  (SectionsBuilt /\ Cardinality(Matches) > 1) =>
    \E first \in Matches :
      /\ \A i \in Matches : first <= i
      /\ ExtensionsApplied = {first}
      /\ \A s \in {"methodology", "results"} :
           DOMAIN call.ret[s]
             = (DOMAIN base_fields[s]) \cup DOMAIN ExtensionTables[s][first]

\* sections have been built for 'Natural Food & Textile Products', which
\* matches Food, Textile and Natural, with the Food extension
C9_Witness ==
  /\ SectionsBuilt
  /\ Matches = {2, 4, 5}
  /\ DOMAIN food_methodology \subseteq DOMAIN call.ret.methodology

\* ---- C10 ----
\* the ordinal table: the category at each code's position
OrdinalTable ==
  << [code |-> "1", category |-> "Agricultural Products"],
     [code |-> "2", category |-> "Food & Beverages"],
     [code |-> "3", category |-> "Handicrafts & Artisanal Products"],
     [code |-> "4", category |-> "Textiles & Fabrics"],
     [code |-> "5", category |-> "Natural Products & Extracts"] >>

\* C10: each code "1".."5" in the category field is mapped to the category at
\* that position of the ordinal table, distinct codes give distinct
\* categories, and the classification is always one of the five categories
\* or Unknown.
C10_CodesMapByOrdinal ==
  FormExtracted =>
    LET row == data.rows[1]
        selection == Get(row, "Select Product Category", PyStr(""))
    IN  /\ \A i \in 1..Len(OrdinalTable) :
             selection = PyStr(OrdinalTable[i].code) =>
               call.ret.product_category = PyStr(OrdinalTable[i].category)
        /\ \A i, j \in 1..Len(OrdinalTable) :
             i # j =>
               _extract_product_category(
                   WithCategory(row, "Select Product Category", PyStr(OrdinalTable[i].code)))
                 # _extract_product_category(
                     WithCategory(row, "Select Product Category", PyStr(OrdinalTable[j].code)))
        /\ call.ret.product_category
             \in {PyStr(OrdinalTable[i].category) : i \in 1..Len(OrdinalTable)}
                   \cup {PyStr("Unknown")}

\* extract_form_data has classified a row carrying the code "5"
C10_Witness ==
  /\ FormExtracted
  /\ Get(data.rows[1], "Select Product Category", PyNone) = PyStr("5")
  /\ call.ret.product_category = PyStr("Natural Products & Extracts")

\* ---- Responses with answers of every kind ----

\* the response of the end-to-end scenario, its category answered under
\* category_label
EndToEnd(category_label, category) ==
  (category_label :> PyStr(category)) @@
  ("Product Name ( Exact name you want to register for GI protection)"
     :> PyStr("Alphonso Mango")) @@
  ("Region of Origin" :> PyStr("Ratnagiri")) @@
  ("Crop/Plant Type (Scientific name and variety of the plant/crop)"
     :> PyStr("Mangifera indica"))

\* what a cell of the sheet can hold besides an answer: nothing, blanks, a
\* "not available" mark, or a null
AnswerInputs ==
  {PyStr(""), PyStr("   "), PyStr("N/A"), PyNone}

\* the questions an Agricultural response is asked, and the labels the
\* section mapper reads for it
ScenarioLabels ==
  Range(universal_sections) \cup Range(universal_closing_sections)
  \cup Range(agricultural_pool)
  \cup UNION {{base_fields[s][k] : k \in DOMAIN base_fields[s]} : s \in Sections}
  \cup {agricultural_methodology[k] : k \in DOMAIN agricultural_methodology}
  \cup {agricultural_results[k] : k \in DOMAIN agricultural_results}

\* the scenario's response, and that response with one more cell, or one of
\* its own cells, holding each kind of answer
AnsweredResponses ==
  LET scenarios == {EndToEnd(CategoryQuestion, "Agricultural Products"),
                    EndToEnd("Select Product Category", "Agricultural Products"),
                    EndToEnd("Select Product Category", "1")}
  IN  scenarios
        \cup {(l :> v) @@ r : r \in scenarios,
                              l \in ScenarioLabels \ CategoryLabels,
                              v \in AnswerInputs}

InitAnswers ==
  /\ response \in AnsweredResponses
  /\ Fresh

SpecAnswers == InitAnswers /\ [][Next]_vars

\* ---- C11 ----
\* C11: for the end-to-end response (category "Agricultural Products",
\* Product Name "Alphonso Mango", Region of Origin "Ratnagiri", Crop/Plant
\* Type "Mangifera indica") the methodology section holds the key
\* crop_plant_type with the value "Mangifera indica", and holds neither
\* weaving_technique nor craft_type.
C11_EndToEndCropPlantType ==
  (SectionsBuilt /\ response = EndToEnd(CategoryQuestion, "Agricultural Products")) =>
    /\ "crop_plant_type" \in DOMAIN call.ret.methodology
    /\ call.ret.methodology.crop_plant_type = PyStr("Mangifera indica")
    /\ "weaving_technique" \notin DOMAIN call.ret.methodology
    /\ "craft_type" \notin DOMAIN call.ret.methodology

\* ---- C12 ----
\* C12: in every section of every built document every key is present and
\* its value is a string: a field absent from the response, or present with
\* a null value, is rendered as the empty string; the same for the groups
\* process_form_response builds.
C12_EveryValueIsString ==
  /\ SectionsBuilt =>
       \A s \in Sections : \A k \in DOMAIN LabelsRead(response)[s] :
         LET label == LabelsRead(response)[s][k]
         IN  /\ k \in DOMAIN call.ret[s]
             /\ IsStr(call.ret[s][k])
             /\ (label \notin DOMAIN response \/ ~IsStr(response[label])) =>
                  call.ret[s][k] = PyStr("")
  /\ FormProcessed =>
       \A g \in UniversalGroups : \A k \in DOMAIN call.ret[g] :
         IsStr(call.ret[g][k])

\* ---- C13 ----
\* a cell that holds no answer: empty, blanks only, or a "not available" mark
NoAnswer(v) == IsStr(v) /\ (strip(v.s) = "" \/ v.s = "N/A")

\* the key -> label table of each universal and closing group a router builds
GroupTables(op) ==
  IF op = "extract_form_data"
  THEN [ applicant_info |-> applicant_info_fields,
         product_info |-> product_info_fields,
         geographic_info |-> geographic_info_fields,
         historical_evidence |-> historical_evidence_fields,
         economic_impact |-> economic_impact_fields,
         supporting_documents |-> supporting_documents_fields ]
  ELSE [ applicant_info |-> cfp_applicant_info,
         product_info |-> cfp_product_info,
         geographic_info |-> cfp_geographic_info,
         historical_evidence |-> cfp_historical_evidence,
         economic_impact |-> cfp_economic_impact,
         supporting_documents |-> cfp_supporting_documents ]

\* the row the router's last call worked on
RoutedRow == IF call.op = "extract_form_data" THEN data.rows[1] ELSE response

\* C13: the router drops every field whose value is empty, whitespace-only
\* or a "not available" mark: a universal or closing field the row answers
\* so has no key in its group, and the conditional data holds no such value.
C13_EmptyFieldsDropped ==
  (FormExtracted \/ FormProcessed) =>
    /\ \A g \in UniversalGroups : \A k \in DOMAIN GroupTables(call.op)[g] :
         LET label == GroupTables(call.op)[g][k]
         IN  (label \in DOMAIN RoutedRow /\ NoAnswer(RoutedRow[label])) =>
               k \notin DOMAIN call.ret[g]
    /\ \A k \in DOMAIN call.ret.category_specific_data :
         ~NoAnswer(call.ret.category_specific_data[k])

\* ---- C14 ----
\* the questions every response is asked, whatever its category
UniversalLabels == Range(universal_sections) \cup Range(universal_closing_sections)

\* C14: every label of the universal and of the universal_closing pool is
\* read into at least one section: a response that answers it has the answer
\* under some key of some section of the document built.
C14_UniversalLabelsSurfaced ==
  SectionsBuilt =>
    \A l \in UniversalLabels :
      Answered(response, l) =>
        \E s \in Sections : \E k \in DOMAIN call.ret[s] :
          /\ LabelsRead(response)[s][k] = l
          /\ call.ret[s][k] = response[l]

\* ---- C15 ----
\* the same label with the leading space added or removed
SpaceVariant(label) ==
  IF Len(label) > 0 /\ Head(label) = Head(" ") THEN Tail(label) ELSE " " \o label

\* the row with the answer under label moved to another label
Relabel(row, label, other) ==
  [l \in ((DOMAIN row) \ {label}) \cup {other} |->
     IF l = other THEN row[label] ELSE row[l]]

\* C15: label matching tolerates a leading space: supplying an answer under
\* a label with the leading space or without it gives the same sections, and
\* the same extracted form data.
C15_LeadingSpaceTolerated ==
  /\ SectionsBuilt =>
       \A l \in (DOMAIN response) \ CategoryLabels :
         SpaceVariant(l) \notin DOMAIN response =>
           call.ret
             = extract_paper_sections_data(Relabel(response, l, SpaceVariant(l))).ret
  /\ FormExtracted =>
       \A l \in (DOMAIN data.rows[1]) \ CategoryLabels :
         SpaceVariant(l) \notin DOMAIN data.rows[1] =>
           call.ret = form_data_of(Relabel(data.rows[1], l, SpaceVariant(l)))

\* ---- The key normalizer alone: labels as field names of a pool ----

\* the characters labels are made of here: a capital, a small letter, the
\* blanks, every character the chain replaces, and the underscore
LabelAlphabet ==
  << "A", "b", " ", "\t", "\n", "(", ")", "[", "]", "?", "/", "&", "_" >>

\* the longest label
MaxLabelLen == 3

RECURSIVE LabelsUpTo(_)
LabelsUpTo(n) ==
  IF n = 0 THEN {""}
  ELSE LET shorter == LabelsUpTo(n - 1)
       IN  shorter \cup {s \o LabelAlphabet[i] : s \in shorter, i \in 1..Len(LabelAlphabet)}

\* the loop of extract_conditional_data holds a field name
InitNormalizer ==
  /\ response = EmptyDict
  /\ data = PyNone
  /\ processed_data = EmptyDict
  /\ call \in {[op |-> "field", field |-> f] : f \in LabelsUpTo(MaxLabelLen)}

\* key = field.lower().replace(...)...
Normalize ==
  /\ call.op = "field"
  /\ call' = [op |-> "normalize", field |-> call.field, key |-> normalize(call.field)]
  /\ UNCHANGED <<response, data, processed_data>>

\* the key derived is itself taken as a field name
NormalizeKey ==
  /\ call.op = "normalize"
  /\ call' = [op |-> "normalize", field |-> call.key, key |-> normalize(call.key)]
  /\ UNCHANGED <<response, data, processed_data>>

NextNormalizer == Normalize \/ NormalizeKey

SpecNormalizer == InitNormalizer /\ [][NextNormalizer]_vars

\* a key has been derived from a field name
KeyDerived == call.op = "normalize"

\* ---- C16 ----
\* C16: key normalization is idempotent: normalizing a key the chain has
\* produced returns it unchanged, normalize(normalize(x)) = normalize(x).
C16_NormalizeIdempotent ==
  KeyDerived =>
    /\ normalize(call.key) = call.key
    /\ normalize(normalize(call.field)) = normalize(call.field)

\* the key of "A/&" has been normalized again
C16_Witness ==
  /\ KeyDerived
  /\ call.field = normalize("A/&")
  /\ call.field = "a_and"
  /\ call.key = "a_and"

\* ---- C17 ----
\* the characters no key may hold
ForbiddenInKey ==
  {CharAt(Upper, i) : i \in 1..Len(Upper)} \cup {"(", ")", "[", "]", "?", "/", "&"}

key_of_char(c) ==
  IF c \in Whitespace THEN "_"
  ELSE IF c \in {"(", ")", "[", "]", "?"} THEN ""
  ELSE IF c = "/" THEN "_"
  ELSE IF c = "&" THEN "and"
  ELSE lower_char(c)

\* the key the definition gives a label: character by character
RECURSIVE key_of(_)
key_of(label) ==
  IF label = "" THEN "" ELSE key_of_char(Head(label)) \o key_of(Tail(label))

\* C18: the normalized key is the label lowercased, its whitespace converted
\* to underscores, ( ) [ ] ? removed, "/" replaced by "_" and "&" by "and",
\* whether the whitespace inside the label is a space, several spaces, a tab
\* or a newline.
C18_KeyIsDefinedTransformation ==
  (KeyDerived /\ strip(call.field) = call.field) => call.key = key_of(call.field)

\* ---- One DataProcessor serving a sequence of responses ----

\* the responses of a session: every category answer, alone or with one
\* answer an extension reads
SessionResponses ==
  LET category_part ==
        {EmptyDict} \cup {CategoryQuestion :> v : v \in CategoryInputs}
      field_part ==
        {EmptyDict}
          \cup {agricultural_methodology.crop_type :> PyStr("Mangifera indica"),
                textile_methodology.weaving_technique :> PyStr("answer")}
  IN  {c @@ f : c \in category_part, f \in field_part}

InitSession ==
  /\ response \in SessionResponses
  /\ Fresh

\* the next response is handed over once the sections of the last are built
NextResponse(r) ==
  /\ call.op = "extract_paper_sections_data"
  /\ r # response
  /\ response' = r
  /\ UNCHANGED <<data, processed_data, call>>

NextSession ==
  \/ ExtractPaperSections
  \/ \E r \in SessionResponses : NextResponse(r)

SpecSession == InitSession /\ [][NextSession]_vars

truthy(v) == v \notin {PyStr(""), PyNone}

\* response_dict = {header: val for header, val in zip(headers, row_data) if val}
response_dict_of(row) ==
  [h \in {h \in DOMAIN row : truthy(row[h])} |-> row[h]]

\* what \w matches
WordChars == Upper \o Lower \o "0123456789_"

\* re.sub(r'[^\w\s-]', '', s) on s[lo..hi]
RECURSIVE sub_between(_, _, _)
sub_between(s, lo, hi) ==
  IF lo > hi THEN ""
  ELSE IF lo = hi
  THEN LET c == CharAt(s, lo)
       IN  IF c \in Whitespace \/ c = "-"
              \/ \E i \in 1..Len(WordChars) : CharAt(WordChars, i) = c
           THEN c ELSE ""
  ELSE LET mid == (lo + hi) \div 2
       IN  sub_between(s, lo, mid) \o sub_between(s, mid + 1, hi)

\* re.sub(r'[^\w\s-]', '', product_name).strip().replace(' ', '_')
safe_name_of(product_name) ==
  replace(strip(sub_between(product_name, 1, Len(product_name))), " ", "_")

\* the text the model returns for a section: outside the program, so a
\* text of its own per section
GeneratedText(section) == "generated " \o section

\* AcademicGenerator.generate_full_paper
generate_full_paper(sections_data) ==
  [s \in Sections |-> GeneratedText(s)]

\* the placeholder paper of the except branch
placeholder_paper(product_name, region) ==
  [ abstract |-> "This paper presents the case for Geographical Indication protection for "
                   \o str(product_name) \o " from " \o str(region) \o ".",
    introduction |-> "The " \o str(product_name) \o " from " \o str(region)
                       \o " represents a unique product with distinct characteristics.",
    literature_review |-> "Literature review section pending detailed analysis.",
    methodology |-> "Methodology section requires comprehensive data collection.",
    results |-> "Results section will be populated with empirical data.",
    conclusion |-> "The " \o str(product_name)
                     \o " merits GI protection based on its unique regional characteristics." ]

\* the request's date and signature
RequestDate == "2025-01-01"
RequestSignature == "GI Research Team"

\* what a request finds outside the server: the credentials file of
\* GoogleSheetsProcessor, the Sheets API and the sheet behind it, the text
\* generation and the PDF writer
Environment(credentials_found, api, values, generation_fails, pdf_fails) ==
  [credentials_found |-> credentials_found, api |-> api, values |-> values,
   generation_fails |-> generation_fails, pdf_fails |-> pdf_fails]

\* the manual-mode body of generate_paper from response_dict on: DataProcessor(),
\* the sections, the texts or their placeholders, the PDF and the answer;
\* calls are the collaborators called, paper is what goes into the PDF
manual_mode(response_dict, date, env) ==
  LET built == extract_paper_sections_data(response_dict)
      product_name ==
        Get(response_dict, " Product Name ( Exact name you want to register for GI protection)",
            PyStr("Untitled GI Product"))
      region == Get(response_dict, " Region of Origin", PyStr(""))
      title == "Geographical Indication Protection for " \o str(product_name)
                 \o (IF region # PyStr("") THEN " from " \o str(region) ELSE "")
      paper == IF env.generation_fails THEN placeholder_paper(product_name, region)
               ELSE generate_full_paper(built.ret)
      filename == "GI_Paper_" \o safe_name_of(product_name.s) \o "_" \o date \o ".pdf"
      failed(e, calls) ==
        [code |-> 500, paper |-> PyNone, calls |-> calls,
         ret |-> [error |-> "Paper generation failed: " \o e]]
  IN  IF ~env.credentials_found
      THEN failed("Credentials file not found: config/google_credentials.json",
                  <<"DataProcessor">>)
      ELSE IF built.exc # "none" THEN failed(built.exc, <<"DataProcessor">>)
      ELSE IF ~IsStr(product_name)
      THEN failed("TypeError", <<"DataProcessor", "AcademicGenerator">>)
      ELSE IF env.pdf_fails
      THEN failed("Exception",
                  <<"DataProcessor", "AcademicGenerator", "generate_enhanced_paper_pdf">>)
      ELSE [code |-> 200, paper |-> paper,
            calls |-> <<"DataProcessor", "AcademicGenerator", "generate_enhanced_paper_pdf">>,
            ret |-> [ status |-> "success",
                      message |-> "Paper generation successfully for " \o str(product_name),
                      filename |-> filename,
                      download_url |-> "/api/download-paper/" \o filename,
                      metadata |-> [ title |-> title,
                                     author |-> RequestSignature,
                                     product_name |-> product_name,
                                     region |-> region ],
                      method |-> "manual_entry" ]]

\* generate_paper for a request without sheetsUrl whose headers and rowData
\* make up `row`: [code, ret, paper, calls]
generate_paper(row, credentials_found, generation_fails, pdf_fails) ==
  IF row = EmptyDict
  THEN [code |-> 400, paper |-> PyNone, calls |-> <<>>,
        ret |-> [error |-> "No data provided. Provide rowData or sheetsUrl."]]
  ELSE manual_mode(response_dict_of(row), RequestDate,
                   Environment(credentials_found, "ok", <<>>, generation_fails, pdf_fails))

\* POST /api/generate-paper with rowData and headers
GeneratePaper(credentials_found, generation_fails, pdf_fails) ==
  LET r == generate_paper(response, credentials_found, generation_fails, pdf_fails)
  IN  /\ call' = [op |-> "generate_paper", code |-> r.code, ret |-> r.ret, paper |-> r.paper]
      /\ UNCHANGED <<response, data, processed_data>>

InitServer ==
  /\ response \in AnsweredResponses \cup {EmptyDict}
  /\ Fresh

NextServer ==
  \E credentials_found \in BOOLEAN, generation_fails \in BOOLEAN, pdf_fails \in BOOLEAN :
    GeneratePaper(credentials_found, generation_fails, pdf_fails)

SpecServer == InitServer /\ [][NextServer]_vars

\* ---- C20 ----
\* the request was answered with a paper made of the placeholder texts
FallbackUsed ==
  /\ call.op = "generate_paper"
  /\ call.code = 200
  /\ call.paper # generate_paper(response, TRUE, FALSE, FALSE).paper

\* C20: when text generation fails and the placeholder section texts are
\* used, the response returned to the caller differs from the response the
\* same request gets when the content is generated.
C20_FallbackDistinguishable ==
  FallbackUsed => call.ret # generate_paper(response, TRUE, FALSE, FALSE).ret

\* ---- C28 ----
\* the number of keys the taken branch adds to a section
ExtensionKeyCount(s) ==
  LET b == branch_taken(strip(Get(response, CategoryQuestion, PyStr("")).s))
  IN  IF b = 0 THEN 0 ELSE Cardinality(DOMAIN extension_chain[b][s])

\* C28: applying a category extension never overwrites a base key: for every
\* category the keys added to methodology and results are disjoint from the
\* section's base keys, every base key keeps the value read from its base
\* label, and the extended section has as many keys as the base and the
\* extension together.
C28_ExtensionKeepsBaseKeys ==
  /\ \A i \in 1..Len(extension_chain) : \A s \in {"methodology", "results"} :
       (DOMAIN extension_chain[i][s]) \cap (DOMAIN base_fields[s]) = {}
  /\ SectionsBuilt =>
       \A s \in {"methodology", "results"} :
         /\ \A k \in DOMAIN base_fields[s] :
              call.ret[s][k] = Get(response, base_fields[s][k], PyStr(""))
         /\ Cardinality(DOMAIN call.ret[s])
              = Cardinality(DOMAIN base_fields[s]) + ExtensionKeyCount(s)

\* sections have been built for an Agricultural response that answers a
\* question a base key of methodology reads
C28_Witness ==
  /\ SectionsBuilt
  /\ MapperCategory(response) = "Agricultural Products"
  /\ \E k \in (DOMAIN methodology_base) \ {"category"} :
       /\ Answered(response, methodology_base[k])
       /\ call.ret.methodology[k] = response[methodology_base[k]]
  /\ DOMAIN agricultural_methodology \subseteq DOMAIN call.ret.methodology


\* ---- One GoogleFormProcessor used for several files ----

\* GoogleFormProcessor.get_processed_data
GetProcessedData ==
  /\ call' = [op |-> "get_processed_data", exc |-> "none", ret |-> processed_data]
  /\ UNCHANGED <<response, data, processed_data>>

InitProcessor ==
  /\ response \in Responses("Select Product Category")
  /\ Fresh

NextProcessor ==
  \/ \E readable \in BOOLEAN, rows \in {<<>>, <<response>>} : LoadData(readable, rows)
  \/ ExtractFormData
  \/ GetProcessedData

SpecProcessor == InitProcessor /\ [][NextProcessor]_vars

\* ---- C29 ----

\* C29: get_processed_data returns exactly what the most recent
\* extract_form_data returned: asked right after an extraction, it answers
\* with that extraction's result, also when the extraction found no data.
C29_ProcessedDataIsLastExtraction ==
  [][(call.op = "extract_form_data" /\ call'.op = "get_processed_data")
       => call'.ret = call.ret]_vars

\* ---- Form responses fetched from a spreadsheet ----

MaxRows == 2

\* the first line of the sheet
SheetHeader == <<"Timestamp", CategoryQuestion>>

\* the lines under it, as the Sheets API returns them: cells are strings and
\* trailing empty cells are left out
SheetRows ==
  UNION {[1..n -> {"", "Food"}] : n \in 1..Len(SheetHeader)}

RECURSIVE RowsUpTo(_)
RowsUpTo(n) ==
  IF n = 0 THEN {<<>>}
  ELSE RowsUpTo(n - 1)
         \cup {Append(rows, r) : rows \in {q \in RowsUpTo(n - 1) : Len(q) = n - 1},
                                 r \in SheetRows}

\* result.get('values', []): nothing at all, or the header and the rows
SheetValues == {<<>>} \cup {<<SheetHeader>> \o rows : rows \in RowsUpTo(MaxRows)}

\* what spreadsheets().values().get(...).execute() does
ApiOutcomes == {"ok", "HttpError 403", "HttpError 404", "ConnectionError"}

Raised(exc, msg) == [exc |-> exc, msg |-> msg, ret |-> PyNone]

Returned(ret) == [exc |-> "none", msg |-> "", ret |-> ret]

\* pd.DataFrame(rows, columns=columns): short rows are filled with None up
\* to the longest row; the longest row must be as long as columns
pd_DataFrame(rows, columns) ==
  IF rows = <<>> THEN Returned([columns |-> columns, rows |-> <<>>])
  ELSE IF \E i \in 1..Len(rows) : Len(rows[i]) = Len(columns)
  THEN Returned([columns |-> columns,
                 rows |-> [i \in 1..Len(rows) |->
                             [c \in Range(columns) |->
                                LET j == CHOOSE j \in 1..Len(columns) : columns[j] = c
                                IN  IF j <= Len(rows[i]) THEN PyStr(rows[i][j])
                                    ELSE PyNone]]])
  ELSE Raised("ValueError", "2 columns passed, passed data had 1 columns")

\* GoogleSheetsProcessor.get_form_responses
get_form_responses(api, values) ==
  IF api = "HttpError 403"
  THEN Raised("PermissionError",
              "Access denied. Please share the spreadsheet with: " \o "service-account")
  ELSE IF api = "HttpError 404"
  THEN Raised("Exception", "Google Sheets API error: " \o api)
  ELSE IF api = "ConnectionError"
  THEN Raised("Exception", "Error loading form responses: " \o api)
  ELSE IF values = <<>>
  THEN Raised("Exception",
              "Error loading form responses: " \o "No data found in the sheet")
  ELSE LET df == pd_DataFrame(Tail(values), Head(values))
       IN  IF df.exc = "none" THEN df
           ELSE Raised("Exception", "Error loading form responses: " \o df.msg)

\* GoogleSheetsProcessor.analyze_form_structure
analyze_form_structure(df) ==
  LET non_empty(col) == {i \in 1..Len(df.rows) : df.rows[i][col] # PyNone}
      unique(col) == {df.rows[i][col] : i \in non_empty(col)}
      category_specific(col) ==
        /\ Cardinality(unique(col)) <= 5
        /\ 10 * Cardinality(non_empty(col)) < 8 * Len(df.rows)
  IN  [universal_fields |-> {c \in Range(df.columns) : ~category_specific(c)},
       category_specific_fields |-> {c \in Range(df.columns) : category_specific(c)},
       total_responses |-> Len(df.rows),
       columns |-> df.columns]

\* DataProcessor.process_google_sheets_data
process_google_sheets_data(api, values) ==
  LET df == get_form_responses(api, values)
  IN  IF df.exc # "none" THEN df
      ELSE IF df.ret.rows = <<>>
      THEN Raised("IndexError", "single positional indexer is out-of-bounds")
      ELSE Returned([form_structure |-> analyze_form_structure(df.ret),
                     latest_response |-> df.ret.rows[Len(df.ret.rows)],
                     all_responses |-> df.ret.rows,
                     total_responses |-> Len(df.ret.rows)])

\* the spreadsheet the processor is pointed at
Sheet(values) == [t |-> "sheet", values |-> values]

InitSheets ==
  /\ response = EmptyDict
  /\ data \in {Sheet(v) : v \in SheetValues}
  /\ processed_data = EmptyDict
  /\ call = NoCall

GetFormResponses(api) ==
  LET r == get_form_responses(api, data.values)
  IN  /\ call' = [op |-> "get_form_responses", api |-> api,
                  exc |-> r.exc, msg |-> r.msg, ret |-> r.ret]
      /\ UNCHANGED <<response, data, processed_data>>

ProcessGoogleSheetsData(api) ==
  LET r == process_google_sheets_data(api, data.values)
  IN  /\ call' = [op |-> "process_google_sheets_data", api |-> api,
                  exc |-> r.exc, msg |-> r.msg, ret |-> r.ret]
      /\ UNCHANGED <<response, data, processed_data>>

NextSheets ==
  \/ \E api \in ApiOutcomes : GetFormResponses(api)
  \/ \E api \in ApiOutcomes : ProcessGoogleSheetsData(api)

SpecSheets == InitSheets /\ [][NextSheets]_vars

\* ---- C25 ----

\* the sheet holds no response: nothing at all, or the header line only
NoResponseData == Len(data.values) <= 1

\* C25: whenever get_form_responses returns normally the table has at least
\* one response row, and a sheet without response data that was fetched
\* without an API failure is reported by 'No data found in the sheet' and by
\* no other failure.
C25_NoDataReported ==
  /\ (call.op = "get_form_responses" /\ call.exc = "none")
       => Len(call.ret.rows) >= 1
  /\ (call.op \in {"get_form_responses", "process_google_sheets_data"}
        /\ call.api = "ok" /\ NoResponseData)
       => /\ call.exc # "none"
          /\ Contains("No data found in the sheet", call.msg)

\* ---- The paper generated section by section ----

\* the sections in the order generate_full_paper takes them
SectionOrder ==
  <<"abstract", "introduction", "literature_review", "methodology", "results",
    "conclusion">>

\* mapped data holding some of the sections
SectionsDataInputs ==
  {[s \in D |-> [topic |-> PyStr(s)]] : D \in SUBSET Range(SectionOrder)}

\* generate_full_paper is running and has not returned or raised
Generating == call.op = "generate_full_paper" /\ call.pc \in 1..(Len(SectionOrder) + 1)

\* AcademicGenerator.generate_full_paper is called: paper = {}
EnterFullPaper(sections_data) ==
  /\ ~Generating
  /\ call' = [op |-> "generate_full_paper", sections_data |-> sections_data,
              pc |-> 1, paper |-> EmptyDict, invocations |-> <<>>,
              exc |-> "none", failed_at |-> 0, ret |-> PyNone]
  /\ UNCHANGED <<response, data, processed_data>>

\* one turn of the loop with generate_section answering every failure by
\* leaving the section out and going on
GenerateSection_skipping(fails) ==
  /\ Generating
  /\ call.pc <= Len(SectionOrder)
  /\ LET section == SectionOrder[call.pc]
         invoked == [section |-> section,
                     data |-> Get(call.sections_data, section, EmptyDict)]
     IN  call' = [call EXCEPT
                    !.invocations = Append(@, invoked),
                    !.paper = IF fails THEN @
                              ELSE Update(@, section :> GeneratedText(section)),
                    !.pc = @ + 1]
  /\ UNCHANGED <<response, data, processed_data>>

\* one turn of the loop: generate_section(section, sections_data.get(section,
\* {})) returns the text, or raises and ends generate_full_paper
GenerateSection(fails) ==
  /\ Generating
  /\ call.pc <= Len(SectionOrder)
  /\ LET section == SectionOrder[call.pc]
         invoked == [section |-> section,
                     data |-> Get(call.sections_data, section, EmptyDict)]
     IN  IF fails
         THEN call' = [call EXCEPT
                         !.invocations = Append(@, invoked),
                         !.exc = "Exception", !.failed_at = call.pc, !.pc = 0]
         ELSE call' = [call EXCEPT
                         !.invocations = Append(@, invoked),
                         !.paper = Update(@, section :> GeneratedText(section)),
                         !.pc = @ + 1]
  /\ UNCHANGED <<response, data, processed_data>>

\* the loop is over: return paper
ReturnPaper ==
  /\ Generating
  /\ call.pc = Len(SectionOrder) + 1
  /\ call' = [call EXCEPT !.ret = call.paper, !.pc = 0]
  /\ UNCHANGED <<response, data, processed_data>>

InitGenerator ==
  /\ response = EmptyDict
  /\ Fresh

NextGenerator ==
  \/ \E sections_data \in SectionsDataInputs : EnterFullPaper(sections_data)
  \/ \E fails \in BOOLEAN : GenerateSection(fails)
  \/ ReturnPaper

SpecGenerator == InitGenerator /\ [][NextGenerator]_vars

\* ---- C22 ----

\* C22: generate_full_paper invokes the section generator once per section
\* in the fixed order abstract, introduction, literature_review, methodology,
\* results, conclusion, passing the section's mapped data or an empty
\* mapping when the section is absent; a paper is returned only after all
\* six invocations; after a failed invocation no later section is generated
\* and no paper is returned.
C22_SixSectionsInOrder ==
  call.op = "generate_full_paper" =>
    /\ Len(call.invocations) <= Len(SectionOrder)
    /\ \A i \in 1..Len(call.invocations) :
         call.invocations[i]
           = [section |-> SectionOrder[i],
              data |-> IF SectionOrder[i] \in DOMAIN call.sections_data
                       THEN call.sections_data[SectionOrder[i]]
                       ELSE EmptyDict]
    /\ call.ret # PyNone =>
         /\ call.exc = "none"
         /\ Len(call.invocations) = 6
         /\ DOMAIN call.ret = Range(SectionOrder)
    /\ call.exc # "none" =>
         /\ call.ret = PyNone
         /\ Len(call.invocations) = call.failed_at
         /\ DOMAIN call.paper = {SectionOrder[i] : i \in 1..(call.failed_at - 1)}

C22_Witness ==
  /\ call.op = "generate_full_paper"
  /\ call.ret # PyNone
  /\ "results" \notin DOMAIN call.sections_data
  /\ "abstract" \in DOMAIN call.sections_data
  /\ call.invocations[5].data = EmptyDict
  /\ call.invocations[1].data = call.sections_data.abstract

\* ---- The lazily initialized modules and the status endpoints ----

\* the module globals of the server, with the number of times each class
\* was constructed
Modules(dp, ag, pdf, constructed) ==
  [t |-> "modules", data_processor |-> dp, academic_generator |-> ag,
   pdf_generator |-> pdf, constructed |-> constructed]

\* what a call of get_modules finds: whether each import succeeds and
\* whether the credentials file GoogleSheetsProcessor needs exists
ModuleEnvironments ==
  [import_data_processor : BOOLEAN, credentials_found : BOOLEAN,
   import_academic_generator : BOOLEAN, import_pdf_generator : BOOLEAN]

\* get_modules: only ImportError is caught; DataProcessor() raising for
\* missing credentials leaves get_modules at once
get_modules(m, env) ==
  LET construct_dp == m.data_processor = PyNone /\ env.import_data_processor
      construct_ag == m.academic_generator = PyNone /\ env.import_academic_generator
      dp == IF construct_dp THEN PyStr("DataProcessor") ELSE m.data_processor
      ag == IF construct_ag THEN PyStr("AcademicGenerator") ELSE m.academic_generator
      pdf == IF m.pdf_generator = PyNone /\ env.import_pdf_generator
             THEN PyStr("generate_paper_pdf") ELSE m.pdf_generator
      constructed ==
        [c \in DOMAIN m.constructed |->
           m.constructed[c]
             + (IF \/ c = "DataProcessor" /\ construct_dp
                   \/ c = "AcademicGenerator" /\ construct_ag
                THEN 1 ELSE 0)]
  IN  IF construct_dp /\ ~env.credentials_found
      THEN [exc |-> "FileNotFoundError", modules |-> m, ret |-> PyNone]
      ELSE [exc |-> "none", modules |-> Modules(dp, ag, pdf, constructed),
            ret |-> <<dp, ag, pdf>>]

\* all(...) over module objects
all_available(ret) == \A i \in 1..Len(ret) : ret[i] # PyNone

\* GET /api/health
HealthCheck(env) ==
  LET r == get_modules(data, env)
  IN  /\ data' = r.modules
      /\ call' =
           IF r.exc # "none"
           THEN [op |-> "health_check", env |-> env, code |-> 500, exc |-> r.exc,
                 json |-> PyNone]
           ELSE [op |-> "health_check", env |-> env, code |-> 200, exc |-> "none",
                 json |-> [status |-> "healthy", timestamp |-> RequestDate,
                           modules_available |-> all_available(r.ret)]]
      /\ UNCHANGED <<response, processed_data>>

\* GET /api/modules-status
ModulesStatus(env) ==
  LET r == get_modules(data, env)
  IN  /\ data' = r.modules
      /\ call' =
           IF r.exc # "none"
           THEN [op |-> "modules_status", env |-> env, code |-> 500, exc |-> r.exc,
                 json |-> PyNone]
           ELSE [op |-> "modules_status", env |-> env, code |-> 200, exc |-> "none",
                 json |-> [data_processor |-> r.ret[1] # PyNone,
                           academic_generator |-> r.ret[2] # PyNone,
                           pdf_generator |-> r.ret[3] # PyNone,
                           all_available |-> all_available(r.ret)]]
      /\ UNCHANGED <<response, processed_data>>

\* the server has started: no module is initialized
InitModules ==
  /\ response = EmptyDict
  /\ data = Modules(PyNone, PyNone, PyNone,
                    [c \in {"DataProcessor", "AcademicGenerator"} |-> 0])
  /\ processed_data = EmptyDict
  /\ call = NoCall

NextModules ==
  \/ \E env \in ModuleEnvironments : HealthCheck(env)
  \/ \E env \in ModuleEnvironments : ModulesStatus(env)

SpecModules == InitModules /\ [][NextModules]_vars

\* ---- C30 ----

\* C30: the health and modules-status endpoints always answer with a status
\* report: a module that cannot be initialized, by an import failure or a
\* constructor failure such as missing credentials, is reported unavailable
\* and the endpoint does not fail; a module initialized once is never
\* constructed again.
C30_StatusAlwaysReported ==
  /\ \A c \in DOMAIN data.constructed : data.constructed[c] <= 1
  /\ call.op \in {"health_check", "modules_status"} =>
       /\ call.code = 200
       /\ call.json # PyNone
       /\ (call.op = "modules_status" /\ ~call.env.credentials_found
             /\ data.data_processor = PyNone)
            => call.json.data_processor = FALSE

\* ---- ui/server.py: generate_paper, the whole request ----

\* the characters of [a-zA-Z0-9-_]
IdChars == Upper \o Lower \o "0123456789-_"

IsIdChar(c) == \E i \in 1..Len(IdChars) : CharAt(IdChars, i) = c

\* the longest run of id characters of s from position i on
RECURSIVE id_run(_, _)
id_run(s, i) ==
  IF i > Len(s) \/ ~IsIdChar(CharAt(s, i)) THEN ""
  ELSE CharAt(s, i) \o id_run(s, i + 1)

\* re.search(r'/spreadsheets/d/([a-zA-Z0-9-_]+)', url): group(1) of the
\* leftmost match, or None
spreadsheet_id_of(url) ==
  LET prefix == "/spreadsheets/d/"
      starts == {i \in 1..(Len(url) - Len(prefix)) :
                   /\ SubSeq(url, i, i + Len(prefix) - 1) = prefix
                   /\ IsIdChar(CharAt(url, i + Len(prefix)))}
      first == CHOOSE i \in starts : \A j \in starts : i <= j
  IN  IF starts = {} THEN PyNone ELSE PyStr(id_run(url, first + Len(prefix)))

\* the positions copied whenever the row is long enough, as <<position, label>>
always_positions ==
  <<
    <<7, " Product Name ( Exact name you want to register for GI protection)">>,
    <<10, " Region of Origin">>,
    <<11, "State/Province (Primary state or province of production)">>,
    <<14, CategoryQuestion>>,
    <<2, "Applicant/Orginization Name">>,
    <<9, "Common/Local Names (All alternative names by which this product is known locally)">>,
    <<12, "Specific Geographic Boundaries [Exact boundaries of the geographical area (villages, taluks, coordinates if available)]">>,
    <<13, "Why is this product special to this region? (Explain the connection between geography and product uniqueness)">>
  >>

\* field_positions: the positions copied when the row is long enough and the
\* cell is not empty
field_positions ==
  <<
    <<16, "Type of Handicraft">>,
    <<17, "Product Dimensions (Typical size and dimensions of the finished product)">>,
    <<18, "Materials Used  (All raw materials used and their local sources)">>,
    <<19, "Distinctive Design Features (What makes the design unique to this region?)">>,
    <<20, "Functional Use ( How is this product used in daily life or special occasions?)">>,
    <<21, "Manufacturing Process (Step-by-step description of the traditional making process)">>,
    <<22, "Special Tools & Equipment (Traditional tools and equipment used by artisans)">>,
    <<23, "Skill Requirements (What specific skills and training do artisans need?)">>,
    <<24, "Time to Create (How long does it take to create one piece?)">>,
    <<25, "Design Patterns/Motifs (Traditional patterns, motifs, or designs that are characteristic of the region)">>,
    <<26, "Number of Active Artisans (How many artisans are currently practicing this craft?)">>,
    <<27, "Community Background ( Which communities/families have traditionally practiced this craft?)">>,
    <<28, "Skill Transfer Method (How are skills passed down to new generations?)">>,
    <<29, "Training Period (How long does it take to train a new artisan?)">>,
    <<30, "Historical Significance (Historical importance and cultural significance of this craft)">>,
    <<31, "Traditional Uses in Society  (How was/is this product used in traditional society?)">>,
    <<32, "Symbolic Meaning (Any symbolic or spiritual significance of the craft)">>,
    <<33, "Production Capacity (How many pieces can an artisan produce per month?)">>,
    <<34, "Price Range  (Typical price range for different sizes/types)">>,
    <<35, "Market Challenges ( What challenges do artisans face in marketing their products?)">>,
    <<70, "Production History (How long has this product been made in this region?)">>,
    <<71, "Historical Documents (Any historical references, documents, or evidence)">>,
    <<72, "Cultural Evolution  (How has production evolved while maintaining traditional character?)">>,
    <<73, "Producer Income (Average annual income per producer from this product )">>,
    <<74, "Employment Generation (Number of people employed directly and indirectly)">>,
    <<75, "Regional Economic Impact (Overall economic contribution to the region)">>,
    <<76, "Current Challenges (Main challenges facing production and marketing)">>,
    <<77, "Growth Potential (Potential for expanding production and markets)">>,
    <<78, "Support Needed ( What support is needed for development?)">>
  >>

\* response_dict of a request without headers: row_data[pos] under the label
\* of pos (the first cell of row_data is position 0)
positional_response_dict(row_data) ==
  LET copied == {e \in Range(always_positions) : Len(row_data) > e[1]}
                  \cup {e \in Range(field_positions) :
                          Len(row_data) > e[1] /\ truthy(row_data[e[1] + 1])}
  IN  [label \in {e[2] : e \in copied} |->
         row_data[(CHOOSE e \in copied : e[2] = label)[1] + 1]]

\* {header: val for header, val in zip(headers, row_data) if val}
zipped_response_dict(headers, row_data) ==
  LET n == IF Len(headers) < Len(row_data) THEN Len(headers) ELSE Len(row_data)
  IN  [h \in {headers[i] : i \in {i \in 1..n : truthy(row_data[i])}} |->
         row_data[CHOOSE i \in 1..n :
                    /\ headers[i] = h /\ truthy(row_data[i])
                    /\ \A j \in 1..n : (headers[j] = h /\ truthy(row_data[j])) => j <= i]]

\* datetime.now().strftime('%Y%m%d_%H%M%S') of the request
RequestTimestamp == "20250101_000000"

\* the Google Sheets mode of generate_paper once the URL gave an id
sheets_mode(spreadsheet_id, env) ==
  LET fetched == process_google_sheets_data(env.api, env.values)
      latest_response == fetched.ret.latest_response
      built == extract_paper_sections_data(latest_response)
      product_name ==
        Get(latest_response,
            " Product Name ( Exact name you want to register for GI protection)",
            PyStr("Untitled GI Product"))
      applicant_name ==
        Get(latest_response, "Applicant/Orginization Name", PyStr("GI Research Team"))
      institution == IF truthy(applicant_name) THEN applicant_name
                     ELSE PyStr("Geographical Indication Research Team")
      category == Get(latest_response, CategoryQuestion, PyStr(""))
      region == Get(latest_response, " Region of Origin", PyStr(""))
      title == "Geographical Indication Protection for " \o str(product_name)
                 \o (IF truthy(region) THEN " from " \o str(region) ELSE "")
      filename == "GI_Paper_" \o safe_name_of(product_name.s) \o "_"
                    \o RequestTimestamp \o ".pdf"
      fetching == <<"DataProcessor", "process_google_sheets_data">>
      failed(e, calls) ==
        [code |-> 500, paper |-> PyNone, calls |-> calls,
         ret |-> [error |-> "Failed to process Google Sheets data: " \o e]]
  IN  IF ~env.credentials_found
      THEN failed("Credentials file not found: config/google_credentials.json",
                  <<"DataProcessor">>)
      ELSE IF fetched.exc = "PermissionError"
      THEN [code |-> 403, paper |-> PyNone, calls |-> fetching,
            ret |-> [error |-> fetched.msg,
                     tip |-> "Share the sheet with the service account email"]]
      ELSE IF fetched.exc # "none" THEN failed(fetched.msg, fetching)
      ELSE IF built.exc # "none" THEN failed(built.exc, fetching)
      ELSE IF env.generation_fails
      THEN failed("generation failed", Append(fetching, "AcademicGenerator"))
      ELSE IF ~IsStr(product_name)
      THEN failed("TypeError", Append(fetching, "AcademicGenerator"))
      ELSE IF env.pdf_fails
      THEN failed("Exception",
                  fetching \o <<"AcademicGenerator", "generate_enhanced_paper_pdf">>)
      ELSE [code |-> 200, paper |-> generate_full_paper(built.ret),
            calls |-> fetching \o <<"AcademicGenerator", "generate_enhanced_paper_pdf">>,
            ret |-> [ status |-> "success",
                      message |-> "Paper generated successfully for " \o str(product_name),
                      filename |-> filename,
                      download_url |-> "/api/download-paper/" \o filename,
                      metadata |-> [ title |-> title,
                                     author |-> applicant_name,
                                     institution |-> institution,
                                     category |-> category,
                                     region |-> region,
                                     total_responses_analyzed |-> fetched.ret.total_responses ],
                      method |-> "google_sheets" ]]

\* the answer to a request that never reaches a collaborator
Refused(error) ==
  [code |-> 400, paper |-> PyNone, calls |-> <<>>, ret |-> [error |-> error]]

\* generate_paper taking the rowData of a request whose sheet could not be
\* processed
generate_paper_request_falling_back(req, env) ==
  LET sheets_url == strip(req.sheetsUrl)
      date == IF req.date = PyNone THEN RequestDate ELSE req.date.s
      spreadsheet_id == spreadsheet_id_of(sheets_url)
      response_dict == IF req.headers = <<>>
                       THEN positional_response_dict(req.rowData)
                       ELSE zipped_response_dict(req.headers, req.rowData)
      by_sheet == IF spreadsheet_id = PyNone
                  THEN Refused("Invalid Google Sheets URL format")
                  ELSE sheets_mode(spreadsheet_id.s, env)
  IN  IF sheets_url # "" /\ (by_sheet.code = 200 \/ req.rowData = <<>>)
      THEN [mode |-> "google_sheets", response_dict |-> PyNone] @@ by_sheet
      ELSE IF req.rowData = <<>>
      THEN [mode |-> "manual_entry", response_dict |-> PyNone]
             @@ Refused("No data provided. Provide rowData or sheetsUrl.")
      ELSE [mode |-> "manual_entry", response_dict |-> response_dict]
             @@ manual_mode(response_dict, date, env)

\* generate_paper: [mode, code, ret, paper, calls, response_dict]
generate_paper_request(req, env) ==
  LET sheets_url == strip(req.sheetsUrl)
      date == IF req.date = PyNone THEN RequestDate ELSE req.date.s
      spreadsheet_id == spreadsheet_id_of(sheets_url)
      response_dict == IF req.headers = <<>>
                       THEN positional_response_dict(req.rowData)
                       ELSE zipped_response_dict(req.headers, req.rowData)
  IN  IF sheets_url # ""
      THEN [mode |-> "google_sheets", response_dict |-> PyNone]
             @@ (IF spreadsheet_id = PyNone
                 THEN Refused("Invalid Google Sheets URL format")
                 ELSE sheets_mode(spreadsheet_id.s, env))
      ELSE IF req.rowData = <<>>
      THEN [mode |-> "manual_entry", response_dict |-> PyNone]
             @@ Refused("No data provided. Provide rowData or sheetsUrl.")
      ELSE [mode |-> "manual_entry", response_dict |-> response_dict]
             @@ manual_mode(response_dict, date, env)

\* ---- The requests and what they find ----

UrlInputs ==
  {"", "   ",
   "https://docs.google.com/spreadsheets/d/1AbC-d_9/edit#gid=0",
   "https://docs.google.com/forms/d/1AbC/edit",
   "https://docs.google.com/spreadsheets/d/"}

\* a row of the form's sheet as the page posts it: the product name at
\* position 7, the category at position 14, position 8 empty
FullRow(product_name, category) ==
  [i \in 1..79 |-> IF i = 8 THEN PyStr(product_name)
                   ELSE IF i = 15 THEN PyStr(category)
                   ELSE IF i = 9 THEN PyStr("")
                   ELSE PyStr("answer")]

\* the rowData of the test of the user interface
TestRow ==
  <<PyStr("Malabar Pepper"), PyStr("Famous black pepper from Kerala"),
    PyStr("Kerala, India")>>

RowLengths == {8, 15, 36, 79}

RowInputs ==
  {<<>>, TestRow}
    \cup {SubSeq(FullRow(pc[1], pc[2]), 1, n) :
            pc \in {<<"Blue Pottery of Jaipur", "Handicrafts & Artisanal Products">>,
                    <<"../a/b", "Agricultural Products">>},
            n \in RowLengths}

HeaderInputs ==
  {<<>>,
   <<" Product Name ( Exact name you want to register for GI protection)",
     " Region of Origin", CategoryQuestion>>}

\* the date of the request: absent, a date, or any other string
DateInputs == {PyNone, PyStr("2024-01-15"), PyStr("../../x")}

\* requests naming a sheet, with or without a row beside it; requests with a
\* row alone, with or without headers; requests with neither
Requests ==
  [sheetsUrl : UrlInputs \ {"", "   "}, rowData : {<<>>, TestRow},
   headers : {<<>>}, date : {PyNone}]
    \cup [sheetsUrl : {""}, rowData : RowInputs, headers : {<<>>}, date : DateInputs]
    \cup [sheetsUrl : {"", "   "}, rowData : {TestRow}, headers : HeaderInputs,
          date : {PyNone}]

\* the sheet behind the URL: empty, the header only, or one response
Environments ==
  {Environment(c, api, values, g, p) :
     c \in BOOLEAN, api \in ApiOutcomes,
     values \in {<<>>, <<SheetHeader>>, <<SheetHeader, <<"2024-01-15 10:00:00", "Food">>>>},
     g \in BOOLEAN, p \in BOOLEAN}

\* POST /api/generate-paper: response holds the JSON of the request, data
\* what the request finds outside the server
GeneratePaperRequest ==
  LET r == generate_paper_request(response, data)
  IN  /\ call' = [op |-> "generate_paper_request",
                  mode |-> r.mode, code |-> r.code, ret |-> r.ret, paper |-> r.paper,
                  calls |-> r.calls, response_dict |-> r.response_dict]
      /\ UNCHANGED <<response, data, processed_data>>

InitRequests ==
  /\ response \in Requests
  /\ data \in Environments
  /\ processed_data = EmptyDict
  /\ call = NoCall

NextRequests == GeneratePaperRequest

SpecRequests == InitRequests /\ [][NextRequests]_vars

\* the request was answered
Requested == call.op = "generate_paper_request"

\* ---- C23 ----

\* C23: a sheetsUrl that is not blank takes priority over rowData: the
\* request is answered as the same request without rowData is, an invalid
\* URL with 400 and no collaborator called, a failing fetch with 403 or 500
\* and no text generated; a request with neither sheetsUrl nor rowData is
\* answered with 400 and no collaborator called.
C23_SheetsUrlTakesPriority ==
  Requested =>
    LET sheets_url == strip(response.sheetsUrl)
        alone == generate_paper_request([response EXCEPT !.rowData = <<>>], data)
    IN  /\ sheets_url # "" =>
             /\ call.mode = "google_sheets"
             /\ call.code = alone.code /\ call.ret = alone.ret /\ call.calls = alone.calls
             /\ "manual_entry" \notin {Get(call.ret, "method", "none")}
             /\ spreadsheet_id_of(sheets_url) = PyNone =>
                  call.code = 400 /\ call.calls = <<>>
             /\ (spreadsheet_id_of(sheets_url) # PyNone /\ data.credentials_found
                   /\ data.api # "ok") =>
                  /\ call.code = (IF data.api = "HttpError 403" THEN 403 ELSE 500)
                  /\ call.calls = <<"DataProcessor", "process_google_sheets_data">>
        /\ (sheets_url = "" /\ response.rowData = <<>>) =>
             call.code = 400 /\ call.calls = <<>>

C23_Witness ==
  /\ Requested
  /\ spreadsheet_id_of(strip(response.sheetsUrl)) = PyStr("1AbC-d_9")
  /\ response.rowData = TestRow
  /\ data.credentials_found /\ data.api = "HttpError 403"
  /\ call.code = 403
  /\ call.calls = <<"DataProcessor", "process_google_sheets_data">>

\* ---- C21 ----

\* the collaborator failure a request ran into, judged by the collaborators
\* it called and by what they did
FailureKind(calls, env) ==
  IF "AcademicGenerator" \in Range(calls) /\ env.generation_fails
  THEN "text generation"
  ELSE IF calls = <<"DataProcessor", "process_google_sheets_data">>
            /\ env.api = "HttpError 403"
  THEN "permission denied"
  ELSE IF calls = <<"DataProcessor", "process_google_sheets_data">> /\ env.api # "ok"
  THEN "spreadsheet"
  ELSE "none"

\* what tells the caller the kind of an answer: the HTTP code and the error
\* text before the message of the underlying exception
Label(code, ret) ==
  LET e == IF "error" \in DOMAIN ret THEN ret.error ELSE ""
      colons == {i \in 1..Len(e) : CharAt(e, i) = ":"}
  IN  <<code,
        IF colons = {} THEN e
        ELSE SubSeq(e, 1, (CHOOSE i \in colons : \A j \in colons : i <= j) - 1)>>

\* C21: a permission-denied fetch, any other spreadsheet failure and a
\* text-generation failure are each answered with an error whose label tells
\* which of the three occurred: none of them is answered with a success, and
\* the same request running into a failure of another kind gets another label.
C21_FailuresLabelledByKind ==
  (Requested /\ FailureKind(call.calls, data) # "none") =>
    /\ call.code # 200
    /\ "error" \in DOMAIN call.ret
    /\ \A api \in ApiOutcomes, g \in BOOLEAN :
         LET env == [data EXCEPT !.api = api, !.generation_fails = g]
             other == generate_paper_request(response, env)
         IN  FailureKind(other.calls, env) \notin {"none", FailureKind(call.calls, data)}
               => Label(other.code, other.ret) # Label(call.code, call.ret)

\* ---- C24 ----

\* the request holds a row alone: no sheetsUrl and no headers
ManualHeaderless ==
  /\ Requested
  /\ strip(response.sheetsUrl) = ""
  /\ response.rowData # <<>>
  /\ response.headers = <<>>

\* C24: a manual-mode request without headers, of any length, is answered
\* with HTTP 200 and status 'success' whenever the PDF can be written: also
\* when the spreadsheet credentials are missing and when the text generation
\* fails.
C24_ManualModeSucceeds ==
  (ManualHeaderless /\ ~data.pdf_fails) =>
    /\ call.code = 200
    /\ "status" \in DOMAIN call.ret
    /\ call.ret.status = "success"

\* ---- C26 ----

\* C26: the filename generate_paper builds holds no path separator, whatever
\* the product name and the date of the request, so that the PDF lies inside
\* OUTPUT_DIR.
C26_FilenameInsideOutputDir ==
  (Requested /\ call.code = 200) =>
    /\ ~Contains("/", call.ret.filename)
    /\ ~Contains("\\", call.ret.filename)

\* ---- C27 ----

\* the labels extract_paper_sections_data reads from the row: the category
\* question, the base labels and the labels of the row's extension
LabelsReadFrom(row) ==
  {CategoryQuestion}
    \cup UNION {{LabelsRead(row)[s][k] : k \in DOMAIN LabelsRead(row)[s]} : s \in Sections}

\* C27: every label under which the positional mapping stores a non-empty
\* cell of rowData is a label extract_paper_sections_data reads for the
\* row's category.
C27_PositionalLabelsAreRead ==
  (ManualHeaderless /\ data.credentials_found) =>
    \A label \in DOMAIN call.response_dict :
      truthy(call.response_dict[label]) => label \in LabelsReadFrom(call.response_dict)
====
